---- MODULE Spec2Model ----
(***************************************************************************)
(* Avfile: upload orchestration and resilience layer.                      *)
(*                                                                         *)
(*   - report-submit.js : fixed-window rate limiter + report handler       *)
(*   - analyze.js       : NetlifyAPIClient (transport client, submitReport)*)
(*   - github-api-netlify.js : GitHubUploadManagerNetlify (response cache) *)
(*       and the two-phase delivery (createRelease, uploadAsset)           *)
(*   - compress.js      : VideoCompressionEngine (both classes)            *)
(*   - upload-netlify.js, compress.js : handleFileSelect                   *)
(*                                                                         *)
(* Each component has its own specification over the shared variables;     *)
(* the variables of the other components stay unchanged.                   *)
(***************************************************************************)
EXTENDS Integers, Sequences, FiniteSets, TLC

VARIABLES
    now,              \* Date.now(), in milliseconds
    reportRateLimit,  \* report-submit.js: Map clientIp -> {count, resetTime}
    obs,              \* per client: what a caller of checkReportRateLimit has seen
    last,             \* the last request to the report handler and its answer
    watch,            \* an observer counting accepted requests in one interval
    cache,            \* github-api-netlify.js: this.cache, key -> {value, expiresAt}
    inflight,         \* withCache calls whose compute is pending
    host,             \* the content host: releases and the epoch of its last write
    writes,           \* deleteRelease / uploadWithMetadata calls in progress or done
    misses,           \* per key: the last withCache call that invoked compute
    seen,             \* the last step of the cache's owner, as seen from outside
    engine,           \* compress.js: VideoCompressionEngine, its timers, window.FFmpeg
    job,              \* the compress call in progress or last settled
    pipe,             \* handleFileSelect and the uploadWithMetadata calls
    net,              \* the transport calls (callFunction / request) and their timers
    calc              \* a calculateCompressionParams call: its arguments and result

reportVars == <<reportRateLimit, obs, last, watch>>

cacheVars == <<cache, inflight, host, writes, misses, seen>>

mediaVars == <<engine, job, pipe, net, calc>>

vars == <<now, reportRateLimit, obs, last, watch, cache, inflight, host, writes,
          misses, seen, engine, job, pipe, net, calc>>

(***************************************************************************)
(* Bounds of the model                                                     *)
(***************************************************************************)
\* the clock runs over MaxWindows whole windows
MaxWindows == 1
\* number of checkReportRateLimit calls per client in one behaviour
MaxCalls == 12
\* number of operations of the cache's owner in one behaviour: withCache
\* calls, clearCache calls and clock advances
MaxCacheOps == 4
\* number of operations in one behaviour with writes: withCache calls,
\* deleteRelease calls and uploadWithMetadata calls
MaxWriteOps == 3

(***************************************************************************)
(* JavaScript Map, as a function whose DOMAIN is the set of keys           *)
(***************************************************************************)
EmptyMap == [k \in {} |-> 0]

MapHas(m, k) == k \in DOMAIN m

MapSet(m, k, v) == [x \in (DOMAIN m) \cup {k} |-> IF x = k THEN v ELSE m[x]]

MapDelete(m, k) == [x \in (DOMAIN m) \ {k} |-> m[x]]

(***************************************************************************)
(* report-submit.js: rate limiter                                          *)
(***************************************************************************)
\* const window = 3600 * 1000
Window == 3600000

\* return record.count <= 10
Ceiling == 10

\* (variant: the window already ends at the reset instant itself)
WindowExpiredAtReset(t, record) == t >= record.resetTime

\* if (now > record.resetTime)
WindowExpired(t, record) == t > record.resetTime

\* (variant: a call that is over the ceiling is not counted)
IncrementUnlessOver(record) ==
    IF record.count >= 10 THEN record ELSE [record EXCEPT !.count = @ + 1]

\* record.count++
Increment(record) == [record EXCEPT !.count = @ + 1]

\* (variant: one record, under one key, counts the calls of every client)
checkSharedRateLimit(m, clientIp, t) ==
    LET key == "unknown"
        m1 == IF ~MapHas(m, key)
              THEN MapSet(m, key, [count |-> 0, resetTime |-> t + 3600000])
              ELSE m
        fresh == IF t > m1[key].resetTime
                 THEN [count |-> 0, resetTime |-> t + 3600000]
                 ELSE m1[key]
        after == [fresh EXCEPT !.count = @ + 1]
    IN  [map |-> MapSet(m1, key, after), ret |-> after.count <= 10]

\* function checkReportRateLimit(clientIp), called at instant t on Map m:
\* the Map afterwards and the value returned
checkReportRateLimit(m, clientIp, t) ==
    LET m1 == IF ~MapHas(m, clientIp)
              THEN MapSet(m, clientIp, [count |-> 0, resetTime |-> t + Window])
              ELSE m
        record == m1[clientIp]
        fresh == IF WindowExpired(t, record)
                 THEN [count |-> 0, resetTime |-> t + Window]
                 ELSE record
        after == Increment(fresh)
    IN  [map |-> MapSet(m1, clientIp, after), ret |-> after.count <= Ceiling]

(***************************************************************************)
(* Clients and the clock                                                   *)
(***************************************************************************)
ClientIds == {"ipA", "ipB"}

\* the clock advances by one whole window, or by one millisecond from a
\* multiple of the window: the instants k*Window and k*Window + 1
TickSteps == {1, Window}

NoObs == [n |-> 0, first |-> 0, time |-> 0, ret |-> FALSE, preHas |-> FALSE,
          preCount |-> 0, preReset |-> 0, denied |-> {}]

CanTick(t, d) ==
    IF d = Window THEN (t \div Window) < MaxWindows ELSE (t % Window) = 0

Tick ==
    /\ \E d \in TickSteps : CanTick(now, d) /\ now' = now + d
    /\ UNCHANGED <<reportVars, cacheVars, mediaVars>>

\* One call of checkReportRateLimit(c); obs[c] records what the caller saw:
\* n        calls made for c so far,          first    instant of the first call,
\* time     instant of this call,             ret      value returned,
\* preHas, preCount, preReset   the record before the call,
\* denied   reset instants of the windows in which a call returned false
CheckCall(c) ==
    /\ obs[c].n < MaxCalls
    /\ LET r == checkReportRateLimit(reportRateLimit, c, now)
           rec == r.map[c]
           had == MapHas(reportRateLimit, c)
       IN  /\ reportRateLimit' = r.map
           /\ obs' = [obs EXCEPT ![c] =
                 [n |-> @.n + 1,
                  first |-> IF @.n = 0 THEN now ELSE @.first,
                  time |-> now,
                  ret |-> r.ret,
                  preHas |-> had,
                  preCount |-> IF had THEN reportRateLimit[c].count ELSE 0,
                  preReset |-> IF had THEN reportRateLimit[c].resetTime ELSE 0,
                  denied |-> IF r.ret THEN @.denied
                             ELSE @.denied \cup {rec.resetTime}]]
    /\ UNCHANGED <<now, last, watch, cacheVars, mediaVars>>

NoRequest == [op |-> "none"]

NoWatch == [on |-> FALSE]

\* no VideoCompressionEngine has been constructed
\* no transport call has been made, no compression parameters computed
NoTransport ==
    /\ net = [on |-> FALSE]
    /\ calc = [on |-> FALSE]

NoMedia ==
    /\ engine = [on |-> FALSE]
    /\ job = [pc |-> "idle"]
    /\ pipe = [on |-> FALSE]
    /\ NoTransport

InitLimiter ==
    /\ NoMedia
    /\ now = 0
    /\ reportRateLimit = EmptyMap
    /\ obs = [c \in ClientIds |-> NoObs]
    /\ last = NoRequest
    /\ watch = NoWatch
    /\ cache = EmptyMap
    /\ inflight = << >>
    /\ host = [exists |-> {}, epoch |-> 0]
    /\ writes = [ops |-> 0, max |-> 0, pending |-> << >>, acked |-> EmptyMap]
    /\ misses = EmptyMap
    /\ seen = [op |-> "none"]

NextLimiter ==
    \/ Tick
    \/ \E c \in ClientIds : CheckCall(c)

SpecLimiter == InitLimiter /\ [][NextLimiter]_vars

(***************************************************************************)
(* Claims about the rate limiter                                           *)
(***************************************************************************)
\* the call obs[c] describes was made within one hour of c's first call
InFirstWindow(c) == obs[c].time <= obs[c].first + 3600000

\* the call obs[c] describes was made after the stored reset instant had passed
AfterReset(c) == obs[c].preHas /\ obs[c].time > obs[c].preReset

\* C1: for a client with no prior record, calls 1..10 made within one hour of
\* the first call return true and call 11 returns false; the first call made
\* after the stored reset instant has passed returns true and leaves the
\* client's count at exactly 1.
C1_FirstTenThenDeny ==
    \A c \in ClientIds :
        /\ (obs[c].n \in 1..10 /\ InFirstWindow(c)) => obs[c].ret = TRUE
        /\ (obs[c].n = 11 /\ InFirstWindow(c)) => obs[c].ret = FALSE
        /\ (obs[c].n >= 1 /\ AfterReset(c)) =>
               (obs[c].ret = TRUE /\ reportRateLimit[c].count = 1)

\* eleven calls in the first window (the 11th denied), then a 12th call after
\* the reset instant that is allowed and leaves the count at 1
C1_Witness ==
    \E c \in ClientIds :
        /\ obs[c].n = 12 /\ AfterReset(c) /\ obs[c].preCount = 11
        /\ obs[c].denied # {} /\ obs[c].ret /\ reportRateLimit[c].count = 1

\* C2: every call increments the client's counter by exactly one (from 0 when
\* the record is new or its window has expired), also when it returns false;
\* once a call of a window has returned false, every later call in that window
\* (same reset instant) returns false.
C2_NoRefund ==
    \A c \in ClientIds : obs[c].n >= 1 =>
        /\ reportRateLimit[c].count =
              (IF obs[c].preHas /\ ~AfterReset(c) THEN obs[c].preCount ELSE 0) + 1
        /\ (reportRateLimit[c].resetTime \in obs[c].denied) => obs[c].ret = FALSE

\* a denied call that follows a denied call of the same window: the counter
\* went from 11 to 12
C2_Witness ==
    \E c \in ClientIds :
        /\ obs[c].n >= 12 /\ ~obs[c].ret /\ obs[c].preCount = 11
        /\ reportRateLimit[c].count = 12
        /\ obs[c].preReset = reportRateLimit[c].resetTime

(***************************************************************************)
(* report-submit.js: the handler                                           *)
(***************************************************************************)
\* the own keys of the object literal REPORT_REASONS
REPORT_REASONS ==
    {"copyright", "illegal", "harassment", "private", "malware", "other"}

\* keys that every object literal inherits from Object.prototype; the value
\* found under each of them is a function or an object, hence truthy
ObjectPrototypeKeys ==
    {"constructor", "toString", "toLocaleString", "valueOf", "hasOwnProperty",
     "isPrototypeOf", "propertyIsEnumerable", "__proto__"}

\* REPORT_REASONS[reason] is truthy (every label is a non-empty string)
ReasonLookupTruthy(reason) ==
    reason \in REPORT_REASONS \/ reason \in ObjectPrototypeKeys

\* event.headers['client-ip'] || event.headers['x-forwarded-for'] || 'unknown'
\* ("" stands for a header that is absent or empty)
clientIpOf(headers) ==
    IF headers.clientIp # "" THEN headers.clientIp
    ELSE IF headers.xff # "" THEN headers.xff
    ELSE "unknown"

\* what the Discord end does with one webhook request
WebhookOutcomes ==
    {[kind |-> "response", statusCode |-> 204],
     [kind |-> "response", statusCode |-> 500],
     [kind |-> "error", statusCode |-> 0]}

\* (variant: every response resolves, whatever its status code)
sendDiscordWebhookAnyStatus(outcome) ==
    IF outcome.kind = "error"
    THEN [ok |-> FALSE, error |-> "Network Error"]
    ELSE [ok |-> TRUE, error |-> ""]

\* sendDiscordWebhook: resolves with the status code on 2xx, rejects otherwise
sendDiscordWebhook(outcome) ==
    IF outcome.kind = "error"
    THEN [ok |-> FALSE, error |-> "Network Error"]
    ELSE IF outcome.statusCode >= 200 /\ outcome.statusCode < 300
    THEN [ok |-> TRUE, error |-> ""]
    ELSE [ok |-> FALSE, error |-> "Discord API returned"]

\* new Date().toISOString() at instant t
toISOString(t) == [iso |-> t]

\* what one invocation returns, with what it did on the way:
\* checked  checkReportRateLimit was called,   parsed  JSON.parse was called,
\* webhookCalls  requests made to the Discord webhook
Answer(m, statusCode, body, checked, parsed, webhookCalls) ==
    [map |-> m, statusCode |-> statusCode, body |-> body, checked |-> checked,
     parsed |-> parsed, webhookCalls |-> webhookCalls]

Failure(message) == [success |-> FALSE, error |-> message]

\* exports.handler(event) at instant t; uuid is what generateUUID() draws,
\* webhook what the Discord end does if it is asked
handler(m, event, t, uuid, webhook) ==
    IF event.httpMethod = "OPTIONS"
    THEN Answer(m, 200, EmptyMap, FALSE, FALSE, 0)
    ELSE IF event.httpMethod # "POST"
    THEN Answer(m, 405, [error |-> "Method not allowed"], FALSE, FALSE, 0)
    ELSE
    LET clientIp == clientIpOf(event.headers)
        r == checkReportRateLimit(m, clientIp, t)
        body == event.body
    IN  IF ~r.ret
        THEN Answer(r.map, 429, Failure("Report rate limit exceeded"),
                    TRUE, FALSE, 0)
        ELSE IF body.json = "malformed"
        THEN Answer(r.map, 400, Failure("Unexpected token"), TRUE, TRUE, 0)
        ELSE IF body.file_url = "" \/ body.release_id = "" \/ body.reason = ""
        THEN Answer(r.map, 400, Failure("Missing required fields"),
                    TRUE, TRUE, 0)
        ELSE IF ~ReasonLookupTruthy(body.reason)
        THEN Answer(r.map, 400, Failure("Invalid reason"), TRUE, TRUE, 0)
        ELSE
        LET sent == sendDiscordWebhook(webhook)
        IN  IF sent.ok
            THEN Answer(r.map, 200,
                        [success |-> TRUE, report_id |-> uuid,
                         timestamp |-> toISOString(t),
                         message |-> "Report submitted successfully"],
                        TRUE, TRUE, 1)
            ELSE Answer(r.map, 400, Failure(sent.error), TRUE, TRUE, 1)

(***************************************************************************)
(* analyze.js: NetlifyAPIClient.request and submitReport                   *)
(***************************************************************************)
Resolved(v) == [kind |-> "resolved", value |-> v]

Rejected(message) == [kind |-> "rejected", error |-> message]

\* NetlifyAPIClient.request, given what fetch did: a response, a transport
\* failure or the abort of the timeout
request(fetched) ==
    IF fetched.kind = "abort" THEN Rejected("Request timeout")
    ELSE IF fetched.kind = "network_error" THEN Rejected("Failed to fetch")
    ELSE IF ~(fetched.statusCode >= 200 /\ fetched.statusCode < 300)
    THEN Rejected(IF "error" \in DOMAIN fetched.body /\ fetched.body.error # ""
                  THEN fetched.body.error ELSE "HTTP status")
    ELSE Resolved(fetched.body)

\* NetlifyAPIClient.submitReport: response = await this.request(...);
\* then response.success, response.data.report_id, return response.data
submitReport(fetched) ==
    LET response == request(fetched)
    IN  IF response.kind = "rejected" THEN response
        ELSE IF ~("success" \in DOMAIN response.value /\ response.value.success)
        THEN Rejected(IF "error" \in DOMAIN response.value
                      THEN response.value.error ELSE "Failed to submit report")
        ELSE IF "data" \notin DOMAIN response.value
        THEN Rejected("TypeError: Cannot read properties of undefined")
        ELSE Resolved(response.value.data)

(***************************************************************************)
(* Requests                                                                *)
(***************************************************************************)
Headers ==
    {[clientIp |-> "ipA", xff |-> ""],
     [clientIp |-> "", xff |-> "ipB"]}

ReportBody(json, file_url, reason) ==
    [json |-> json, file_url |-> file_url, release_id |-> "123456789",
     reason |-> reason, additionalInfo |-> ""]

\* JSON.parse(event.body || '{}'): text that does not parse, an object
\* without file_url, and objects with each kind of reason
Bodies ==
    {ReportBody("malformed", "", ""),
     ReportBody("object", "", "copyright"),
     ReportBody("object", "https://example.com/v/123", "copyright"),
     ReportBody("object", "https://example.com/v/123", "not-a-real-reason"),
     ReportBody("object", "https://example.com/v/123", "constructor")}

ValidBody == ReportBody("object", "https://example.com/v/123", "copyright")

UUIDs == {"uuid1", "uuid2"}

NoWebhook == [kind |-> "error", statusCode |-> 0]

\* the draws (generateUUID, the Discord end) that matter for body b: a request
\* that does not get as far as the webhook reads neither
Draws(b) ==
    IF b.json = "object" /\ b.file_url # "" /\ ReasonLookupTruthy(b.reason)
    THEN {d \in UUIDs \X WebhookOutcomes :
            sendDiscordWebhook(d[2]).ok \/ d[1] = "uuid1"}
    ELSE {<<"uuid1", NoWebhook>>}

\* what fetch does with the client's request
Transports == {"delivered", "network_error", "abort"}

\* the record of client c already counts MaxCalls calls in a window that is
\* still open: no further request of c is explored
Exhausted(c) ==
    /\ MapHas(reportRateLimit, c)
    /\ reportRateLimit[c].count >= MaxCalls
    /\ ~WindowExpired(now, reportRateLimit[c])

\* the observer counts the requests of its client that are not answered 429
\* and arrive less than one hour after it started
Watched(w, c, statusCode) ==
    IF w.on /\ w.client = c /\ now < w.start + Window /\ statusCode # 429
    THEN [w EXCEPT !.passed = @ + 1]
    ELSE w

\* the request and its answer, as seen from outside
Observe(op, event, a, transport, result, webhook) ==
    LET c == clientIpOf(event.headers)
    IN  [op |-> op, client |-> c, preHas |-> MapHas(reportRateLimit, c),
         preCount |-> IF MapHas(reportRateLimit, c)
                         /\ ~WindowExpired(now, reportRateLimit[c])
                      THEN reportRateLimit[c].count ELSE 0,
         reason |-> event.body.reason,
         statusCode |-> a.statusCode, body |-> a.body, checked |-> a.checked,
         parsed |-> a.parsed, webhookCalls |-> a.webhookCalls,
         webhook |-> IF a.webhookCalls = 0 THEN [kind |-> "none", statusCode |-> 0]
                     ELSE webhook,
         transport |-> transport, result |-> result]

\* one request with headers h, body b and draws d reaches the handler
Handle(op, method, h, b, d) ==
    LET event == [httpMethod |-> method, headers |-> h, body |-> b]
        a == handler(reportRateLimit, event, now, d[1], d[2])
    IN  /\ reportRateLimit' = a.map
        /\ last' = Observe(op, event, a, "delivered", Rejected(""), d[2])
        /\ watch' = IF method = "POST"
                    THEN Watched(watch, clientIpOf(h), a.statusCode)
                    ELSE watch
        /\ UNCHANGED <<now, obs, cacheVars, mediaVars>>

\* one POST request to the handler
Post ==
    \E h \in Headers, b \in Bodies :
        /\ ~Exhausted(clientIpOf(h))
        /\ \E d \in Draws(b) : Handle("post", "POST", h, b, d)

\* a request with another method: the CORS preflight, or a GET
OtherMethod ==
    \E h \in Headers, method \in {"OPTIONS", "GET"} :
        Handle("other", method, h, ValidBody, <<"uuid1", NoWebhook>>)

\* NetlifyAPIClient.submitReport(reportData) against the handler: the request
\* is answered, is lost before it reaches the handler, or is answered too late
Submit ==
    \E h \in Headers, b \in Bodies, transport \in Transports :
        /\ b.json = "object"
        /\ transport # "delivered" => b = ValidBody
        /\ ~Exhausted(clientIpOf(h))
        /\ \E d \in Draws(b) :
            LET event == [httpMethod |-> "POST", headers |-> h, body |-> b]
                a == IF transport = "network_error"
                     THEN Answer(reportRateLimit, 0, EmptyMap, FALSE, FALSE, 0)
                     ELSE handler(reportRateLimit, event, now, d[1], d[2])
                fetched == IF transport = "delivered"
                           THEN [kind |-> "response",
                                 statusCode |-> a.statusCode, body |-> a.body]
                           ELSE [kind |-> transport]
            IN  /\ transport # "delivered" => d = <<"uuid1", NoWebhook>>
                /\ reportRateLimit' = a.map
                /\ last' = Observe("submit", event, a, transport,
                                   submitReport(fetched), d[2])
                /\ watch' = Watched(watch, clientIpOf(h), a.statusCode)
                /\ UNCHANGED <<now, obs, cacheVars, mediaVars>>

NextReport == Post \/ OtherMethod \/ Submit

\* the handler and its client, all requests at one instant
SpecReport == InitLimiter /\ [][NextReport]_vars

(***************************************************************************)
(* One client's requests over time, with an observer of one interval       *)
(***************************************************************************)
\* the observer starts an interval of one hour for client c at this instant
StartInterval ==
    \E c \in ClientIds :
        /\ ~watch.on
        /\ watch' = [on |-> TRUE, client |-> c, start |-> now, passed |-> 0]
        /\ UNCHANGED <<now, reportRateLimit, obs, last, cacheVars, mediaVars>>

\* a well-formed report of the first client, delivered by the webhook
WindowPost ==
    \E h \in Headers :
        /\ h.clientIp # ""
        /\ ~Exhausted(clientIpOf(h))
        /\ Handle("post", "POST", h, ValidBody,
                  <<"uuid1", [kind |-> "response", statusCode |-> 204]>>)

NextWindow == Tick \/ StartInterval \/ WindowPost

SpecWindow == InitLimiter /\ [][NextWindow]_vars

(***************************************************************************)
(* Claims about the report handler                                         *)
(***************************************************************************)
\* the client's record, or its absence
RecordOf(m, c) ==
    IF MapHas(m, c) THEN <<TRUE, m[c]>>
    ELSE <<FALSE, [count |-> 0, resetTime |-> 0]>>

\* the last request was a POST that reached the handler
Posted == last.op \in {"post", "submit"} /\ last.checked

C3_FirstReportPasses == (Posted /\ ~last.preHas) => last.statusCode # 429

C3_Frame ==
    \A c \in ClientIds :
        c # last'.client =>
            RecordOf(reportRateLimit', c) = RecordOf(reportRateLimit, c)

\* C3: rate-limit records are independent per client identifier: a request of
\* one client never changes another client's count or reset instant, and the
\* first report of a client passes the rate-limit check whatever the other
\* clients have sent (also when another client is being answered 429).
C3_Independent == []C3_FirstReportPasses /\ [][C3_Frame]_vars

\* client ipA has sent 11 reports or more in its window, and the first report
\* of ipB is accepted
C3_Witness ==
    /\ Posted /\ last.client = "ipB" /\ ~last.preHas /\ last.statusCode = 200
    /\ MapHas(reportRateLimit, "ipA")
    /\ reportRateLimit["ipA"].count >= 11
    /\ now <= reportRateLimit["ipA"].resetTime
    /\ reportRateLimit["ipB"].count = 1

\* C4: for every client and every interval of length one hour, at most 10
\* POST requests of that client received in the interval are not answered 429.
C4_TenPerHour == watch.on => watch.passed <= 10

\* C5: a POST whose reason is none of copyright, illegal, harassment, private,
\* malware, other is answered 400 with success false, and no request to the
\* Discord webhook is made for it.
C5_UnknownReasonRejected ==
    (Posted /\ last.reason \notin
        {"copyright", "illegal", "harassment", "private", "malware", "other"})
    => (/\ last.statusCode = 400
        /\ last.body.success = FALSE
        /\ last.webhookCalls = 0)

\* C6: whenever the handler accepts the report (status 200, success true) and
\* the answer reaches the client, submitReport resolves with a value that
\* carries the report_id and the timestamp the handler generated.
C6_SubmitResolves ==
    (/\ last.op = "submit" /\ last.transport = "delivered"
     /\ last.statusCode = 200 /\ last.body.success)
    => (/\ last.result.kind = "resolved"
        /\ "report_id" \in DOMAIN last.result.value
        /\ "timestamp" \in DOMAIN last.result.value
        /\ last.result.value.report_id = last.body.report_id
        /\ last.result.value.timestamp = last.body.timestamp)

(***************************************************************************)
(* github-api-netlify.js: GitHubUploadManagerNetlify, the response cache   *)
(***************************************************************************)
\* this.cacheTTL = 3600 * 1000
cacheTTL == 3600000

DigitChars == <<"0", "1", "2", "3", "4", "5", "6", "7", "8", "9">>

\* a number inside a template literal: its decimal digits
RECURSIVE ToChars(_)
ToChars(n) ==
    IF n < 10 THEN <<DigitChars[n + 1]>>
    ELSE ToChars(n \div 10) \o <<DigitChars[(n % 10) + 1]>>

\* `file:${releaseId}`
fileKey(releaseId) == <<"f", "i", "l", "e", ":">> \o ToChars(releaseId)

\* `releases:latest:${limit}`
releasesKey(limit) ==
    <<"r", "e", "l", "e", "a", "s", "e", "s", ":",
      "l", "a", "t", "e", "s", "t", ":">> \o ToChars(limit)

\* key.includes(pattern)
includes(key, pattern) ==
    \E i \in 1..(Len(key) - Len(pattern) + 1) :
        SubSeq(key, i, i + Len(pattern) - 1) = pattern

\* (variant: the entry is still served at its expiry instant)
FreshAtExpiry(t, cached) == t <= cached.expiresAt

\* now < cached.expiresAt
Fresh(t, cached) == t < cached.expiresAt

\* withCache up to the await: cached && now < cached.expiresAt
CacheHit(c, key, t) == MapHas(c, key) /\ Fresh(t, c[key])

\* (variant: the expiry is counted from the instant compute finished)
StoreAtFinish(c, key, value, start) ==
    MapSet(c, key, [value |-> value, expiresAt |-> now + cacheTTL])

\* this.cache.set(key, {value, expiresAt: now + this.cacheTTL}), where now was
\* read when the call started
Store(c, key, value, start) ==
    MapSet(c, key, [value |-> value, expiresAt |-> start + cacheTTL])

\* clearCache(pattern = null): !pattern holds for null and for ''
clearCache(c, pattern) ==
    IF pattern.null \/ pattern.text = << >> THEN EmptyMap
    ELSE [k \in {x \in DOMAIN c : ~includes(x, pattern.text)} |-> c[k]]

(***************************************************************************)
(* The cached reads, the writes and the content host                       *)
(***************************************************************************)
\* release 1 exists from the start, release 2 is what an upload creates
ReleaseIds == {1, 2}

ReadIds == {1}

Limits == {10}

\* getFileInfo(releaseId) and getLatestReleases(limit)
ReadCalls ==
    {[kind |-> "file", arg |-> id] : id \in ReadIds}
        \cup {[kind |-> "list", arg |-> l] : l \in Limits}

keyOf(call) ==
    IF call.kind = "file" THEN fileKey(call.arg) ELSE releasesKey(call.arg)

AllKeys == {keyOf(call) : call \in ReadCalls}

ListKeys == {releasesKey(l) : l \in Limits}

\* the keys whose cached value a write to release id makes out of date
AffectedKeys(id) == {fileKey(id)} \cup ListKeys

\* patterns given to clearCache: none, '', and some texts
Patterns ==
    {[null |-> TRUE, text |-> << >>],
     [null |-> FALSE, text |-> << >>],
     [null |-> FALSE, text |-> <<"f", "i", "l", "e", ":">>],
     [null |-> FALSE, text |-> <<"1">>],
     [null |-> FALSE, text |-> <<"l", "a", "t", "e", "s", "t">>]}

NoValue == [ids |-> {}, epoch |-> -1]

\* what the host answers to the fetch of a compute: data.data, tagged with the
\* epoch of the host's last write at that moment
HostValue(call) ==
    [ids |-> IF call.kind = "file" THEN {call.arg} ELSE host.exists,
     epoch |-> host.epoch]

\* response.ok of the fetch of a compute
HostHas(call) == call.kind = "list" \/ call.arg \in host.exists

NoMiss ==
    [has |-> FALSE, start |-> 0, failed |-> FALSE, inval |-> FALSE,
     removed |-> FALSE]

MissOf(key) == IF MapHas(misses, key) THEN misses[key] ELSE NoMiss

AckOf(key) == IF MapHas(writes.acked, key) THEN writes.acked[key] ELSE 0

\* an earlier call with this key invoked compute less than one TTL ago, its
\* compute has not failed and the key was not invalidated since
Repeated(key) ==
    LET m == MissOf(key)
    IN  m.has /\ ~m.failed /\ ~m.inval /\ now - m.start < cacheTTL

Remove(seq, i) == SubSeq(seq, 1, i - 1) \o SubSeq(seq, i + 1, Len(seq))

\* withCache(key, fn) from its start to its return (hit) or to the await (miss)
StartRead ==
    \E call \in ReadCalls :
        LET key == keyOf(call)
            hit == CacheHit(cache, key, now)
            had == MapHas(cache, key)
        IN  /\ writes.ops < writes.max
            /\ writes' = [writes EXCEPT !.ops = @ + 1]
            /\ inflight' = IF hit THEN inflight
                           ELSE Append(inflight,
                                  [call |-> call, key |-> key, start |-> now,
                                   state |-> "pending", value |-> NoValue,
                                   refresh |-> had])
            /\ misses' = IF hit
                         THEN MapSet(misses, key,
                                [MissOf(key) EXCEPT !.removed = FALSE])
                         ELSE MapSet(misses, key,
                                [has |-> TRUE, start |-> now, failed |-> FALSE,
                                 inval |-> FALSE, removed |-> FALSE])
            /\ seen' = [op |-> "read", key |-> key, start |-> now, hit |-> hit,
                        computed |-> Len(inflight') > Len(inflight),
                        removed |-> MissOf(key).removed,
                        inval |-> MissOf(key).inval,
                        value |-> IF hit THEN cache[key].value ELSE NoValue,
                        hadEntry |-> had,
                        entry |-> IF had THEN cache[key]
                                  ELSE [value |-> NoValue, expiresAt |-> 0],
                        acked |-> AckOf(key),
                        repeated |-> Repeated(key),
                        afterFailure |-> MissOf(key).failed]
            /\ UNCHANGED <<now, reportVars, cache, host, mediaVars>>

\* the fetch inside a compute is answered by the host with the data
HostAnswer ==
    \E i \in DOMAIN inflight :
        /\ inflight[i].state = "pending"
        /\ HostHas(inflight[i].call)
        /\ inflight' = [inflight EXCEPT ![i] =
              [inflight[i] EXCEPT !.state = "ok",
                                  !.value = HostValue(inflight[i].call)]]
        /\ UNCHANGED <<now, reportVars, cache, host, writes, misses, seen, mediaVars>>

\* withCache after the await, compute resolved: the value is stored with
\* the expiry counted from the start of the call, and returned
SettleRead ==
    \E i \in DOMAIN inflight :
        LET r == inflight[i]
        IN  /\ r.state = "ok"
            /\ inflight' = Remove(inflight, i)
            /\ cache' = Store(cache, r.key, r.value, r.start)
            /\ seen' = [op |-> "stored", key |-> r.key, start |-> r.start,
                        value |-> r.value, refresh |-> r.refresh]
            /\ UNCHANGED <<now, reportVars, host, writes, misses, mediaVars>>

\* the fetch inside a compute fails (transport error, or response.ok false):
\* compute rejects and withCache passes the rejection on
FailRead ==
    \E i \in DOMAIN inflight, transport \in BOOLEAN :
        LET r == inflight[i]
        IN  /\ r.state = "pending"
            /\ transport \/ ~HostHas(r.call)
            /\ inflight' = Remove(inflight, i)
            /\ misses' = IF MissOf(r.key).start = r.start
                         THEN [misses EXCEPT ![r.key].failed = TRUE]
                         ELSE misses
            /\ seen' = [op |-> "rejected", key |-> r.key, start |-> r.start,
                        value |-> NoValue, refresh |-> r.refresh]
            /\ UNCHANGED <<now, reportVars, cache, host, writes, mediaVars>>

\* the record of the calls: the keys a write or a clear invalidates, and the
\* keys whose entry it removed from the map
Invalidate(keys, removed) ==
    [k \in DOMAIN misses |->
        [misses[k] EXCEPT !.inval = @ \/ k \in keys,
                          !.removed = @ \/ k \in removed]]

Ack(keys, epoch) ==
    [k \in (DOMAIN writes.acked) \cup keys |->
        IF k \in keys THEN epoch ELSE writes.acked[k]]

\* deleteRelease(releaseId) up to the await of callFunction
StartDelete ==
    \E id \in ReleaseIds :
        /\ writes.ops < writes.max
        /\ writes' = [writes EXCEPT !.ops = @ + 1,
                        !.pending = Append(@, [op |-> "delete", id |-> id,
                                               state |-> "sent", epoch |-> 0])]
        /\ UNCHANGED <<now, reportVars, cache, inflight, host, misses, seen, mediaVars>>

\* uploadWithMetadata up to the await of createRelease
StartUpload ==
    /\ writes.ops < writes.max
    /\ writes' = [writes EXCEPT !.ops = @ + 1,
                    !.pending = Append(@, [op |-> "upload", id |-> 0,
                                           state |-> "sent", epoch |-> 0])]
    /\ UNCHANGED <<now, reportVars, cache, inflight, host, misses, seen, mediaVars>>

\* the host serves the request of a write: delete-release removes the release,
\* create-release adds one, upload-asset attaches the file to it; or the
\* request fails (transport error, or success false)
HostWrite ==
    \E i \in DOMAIN writes.pending, ok \in BOOLEAN :
        LET w == writes.pending[i]
            free == ReleaseIds \ host.exists
        IN  \/ /\ w.op = "delete" /\ w.state = "sent"
               /\ IF ok /\ w.id \in host.exists
                  THEN /\ host' = [exists |-> host.exists \ {w.id},
                                   epoch |-> host.epoch + 1]
                       /\ writes' = [writes EXCEPT !.pending[i] =
                             [w EXCEPT !.state = "ok", !.epoch = host.epoch + 1]]
                  ELSE /\ host' = host
                       /\ writes' = [writes EXCEPT !.pending[i].state = "failed"]
            \/ /\ w.op = "upload" /\ w.state = "sent"
               /\ IF ok /\ free # {}
                  THEN \E id \in free :
                       /\ host' = [exists |-> host.exists \cup {id},
                                   epoch |-> host.epoch + 1]
                       /\ writes' = [writes EXCEPT !.pending[i] =
                             [w EXCEPT !.state = "created", !.id = id,
                                       !.epoch = host.epoch + 1]]
                  ELSE /\ host' = host
                       /\ writes' = [writes EXCEPT !.pending[i].state = "failed"]
            \/ /\ w.op = "upload" /\ w.state = "created"
               /\ IF ok
                  THEN /\ host' = [host EXCEPT !.epoch = @ + 1]
                       /\ writes' = [writes EXCEPT !.pending[i] =
                             [w EXCEPT !.state = "ok", !.epoch = host.epoch + 1]]
                  ELSE /\ host' = host
                       /\ writes' = [writes EXCEPT !.pending[i].state = "failed"]
    /\ UNCHANGED <<now, reportVars, cache, inflight, misses, seen, mediaVars>>

\* deleteRelease after the await: on success this.cache.delete(`file:${id}`)
\* and return true; otherwise the error is thrown
SettleDelete ==
    \E i \in DOMAIN writes.pending :
        LET w == writes.pending[i]
        IN  /\ w.op = "delete" /\ w.state \in {"ok", "failed"}
            /\ cache' = IF w.state = "ok" THEN MapDelete(cache, fileKey(w.id))
                        ELSE cache
            /\ misses' = IF w.state = "ok"
                         THEN Invalidate({fileKey(w.id)},
                                         (DOMAIN cache) \ (DOMAIN cache'))
                         ELSE misses
            /\ writes' = [writes EXCEPT
                  !.pending = Remove(@, i),
                  !.acked = IF w.state = "ok"
                            THEN Ack(AffectedKeys(w.id), w.epoch) ELSE @]
            /\ seen' = [op |-> IF w.state = "ok" THEN "deleted"
                               ELSE "deleteFailed",
                        id |-> w.id]
            /\ UNCHANGED <<now, reportVars, inflight, host, mediaVars>>

\* uploadWithMetadata after its awaits: it returns the identifiers, or throws;
\* it does not touch this.cache
SettleUpload ==
    \E i \in DOMAIN writes.pending :
        LET w == writes.pending[i]
        IN  /\ w.op = "upload" /\ w.state \in {"ok", "failed"}
            /\ writes' = [writes EXCEPT
                  !.pending = Remove(@, i),
                  !.acked = IF w.state = "ok"
                            THEN Ack(AffectedKeys(w.id), w.epoch) ELSE @]
            /\ seen' = [op |-> IF w.state = "ok" THEN "uploaded"
                               ELSE "uploadFailed",
                        id |-> w.id]
            /\ UNCHANGED <<now, reportVars, cache, inflight, host, misses, mediaVars>>

\* clearCache(pattern)
ClearCache ==
    \E pattern \in Patterns :
        /\ writes.ops < writes.max
        /\ writes' = [writes EXCEPT !.ops = @ + 1]
        /\ cache' = clearCache(cache, pattern)
        /\ misses' = Invalidate({k \in AllKeys :
                                    pattern.null \/ includes(k, pattern.text)},
                                 (DOMAIN cache) \ (DOMAIN cache'))
        /\ seen' = [op |-> "cleared", pattern |-> pattern]
        /\ UNCHANGED <<now, reportVars, inflight, host, mediaVars>>

\* the clock of the cache's owner runs through the instants k*cacheTTL - 1
\* and k*cacheTTL
CacheTick ==
    /\ writes.ops < writes.max
    /\ writes' = [writes EXCEPT !.ops = @ + 1]
    /\ now' = IF now % cacheTTL = 0 THEN now + cacheTTL - 1 ELSE now + 1
    /\ UNCHANGED <<reportVars, cache, inflight, host, misses, seen, mediaVars>>

InitOwner(max) ==
    /\ NoMedia
    /\ now = 0
    /\ reportRateLimit = EmptyMap
    /\ obs = [c \in ClientIds |-> NoObs]
    /\ last = NoRequest
    /\ watch = NoWatch
    /\ cache = EmptyMap
    /\ inflight = << >>
    /\ host = [exists |-> {1}, epoch |-> 0]
    /\ writes = [ops |-> 0, max |-> max, pending |-> << >>, acked |-> EmptyMap]
    /\ misses = EmptyMap
    /\ seen = [op |-> "none"]

InitCache == InitOwner(MaxCacheOps)

InitWrites == InitOwner(MaxWriteOps)

NextCache ==
    \/ CacheTick
    \/ StartRead
    \/ HostAnswer
    \/ SettleRead
    \/ FailRead
    \/ ClearCache

\* the cached reads over time, with clearCache
SpecCache == InitCache /\ [][NextCache]_vars

NextWrites ==
    \/ StartRead
    \/ HostAnswer
    \/ SettleRead
    \/ FailRead
    \/ StartDelete
    \/ StartUpload
    \/ HostWrite
    \/ SettleDelete
    \/ SettleUpload

\* the cached reads together with deleteRelease and uploadWithMetadata
SpecWrites == InitWrites /\ [][NextWrites]_vars

(***************************************************************************)
(* The response cache: claims                                              *)
(***************************************************************************)
\* C7: a withCache call that finds a stored entry for its key and starts
\* before the entry's expiry returns the stored value and does not invoke
\* compute; a call that starts at or after the expiry invokes compute, and
\* when that compute resolves the entry is replaced by the new value with
\* expiry = start of the call + one hour.
C7_HitUntilExpiry ==
    /\ (seen.op = "read" /\ seen.hadEntry /\ seen.start < seen.entry.expiresAt)
       => (/\ seen.hit
           /\ ~seen.computed
           /\ seen.value = seen.entry.value)
    /\ (seen.op = "read" /\ seen.hadEntry /\ seen.start >= seen.entry.expiresAt)
       => (seen.computed /\ ~seen.hit)
    /\ seen.op = "stored"
       => (/\ MapHas(cache, seen.key)
           /\ cache[seen.key] =
                 [value |-> seen.value, expiresAt |-> seen.start + 3600000])

\* a call that started exactly at the expiry of the stored entry has invoked
\* compute and has replaced the entry
C7_Witness ==
    /\ seen.op = "stored" /\ seen.refresh
    /\ seen.start = 3600000
    /\ cache[seen.key].expiresAt = 7200000

\* C8: a withCache call that starts less than one TTL after an earlier call
\* with the same key invoked compute, with no invalidation of the key and no
\* failure of that compute in between, does not invoke compute again.
C8_ComputeOnce == (seen.op = "read" /\ seen.repeated) => ~seen.computed

\* the claim's own reading of "key contains pattern as a substring"
Contains(key, text) ==
    \E a \in 0..Len(key), b \in 0..Len(key) :
        a <= b /\ SubSeq(key, a + 1, b) = text

\* a step of clearCache
ClearStep ==
    /\ seen'.op = "cleared"
    /\ writes'.ops = writes.ops + 1
    /\ now' = now

\* C9, frame part: clearCache(pattern) removes exactly the entries whose key
\* contains the pattern (all entries when no pattern is given) and leaves the
\* value and the expiry of every other entry as they were.
C9_ClearFrame ==
    [][ClearStep =>
        LET p == seen'.pattern
            gone == {k \in DOMAIN cache : p.null \/ Contains(k, p.text)}
        IN  /\ DOMAIN cache' = (DOMAIN cache) \ gone
            /\ \A k \in DOMAIN cache' : cache'[k] = cache[k]]_vars

\* C9: the next withCache call on a key whose entry a clearCache has removed
\* invokes compute.
C9_RemovedKeyRecomputes == (seen.op = "read" /\ seen.removed) => seen.computed

\* C10: a getFileInfo / getLatestReleases call that is served from the cache
\* receives a value the host produced no earlier than the last successful
\* deleteRelease or uploadWithMetadata, completed before the call, that
\* changed what the key describes.
C10_WritesInvalidate ==
    (seen.op = "read" /\ seen.hit) => seen.value.epoch >= seen.acked

\* a step in which deleteRelease settles
DeleteStep ==
    /\ seen'.op \in {"deleted", "deleteFailed"}
    /\ Len(writes'.pending) < Len(writes.pending)

\* C11, settle part: when the host confirmed the deletion the entry `file:<id>`
\* is absent once deleteRelease has returned; when the request failed the
\* cache map is as it was.
C11_DeleteFrame ==
    /\ [](seen.op = "deleted" => ~MapHas(cache, fileKey(seen.id)))
    /\ [][(DeleteStep /\ seen'.op = "deleteFailed") => cache' = cache]_vars

\* C11: after a deleteRelease(id) that the host confirmed, the next
\* getFileInfo(id) invokes its compute.
C11_DeletedKeyRecomputes ==
    (seen.op = "read" /\ seen.key = fileKey(1) /\ seen.inval) => seen.computed

(***************************************************************************)
(* compress.js: VideoCompressionEngine with initFFmpeg                     *)
(***************************************************************************)
\* setTimeout(() => this.initFFmpeg(), 1000)
RetryDelay == 1000
\* waitForFFmpegScript(maxWait = 10000), polling every 100 ms
ScriptMaxWait == 10000
ScriptPollDelay == 100
\* waitUntilReady(maxWait = 30000), polling every 500 ms
ReadyMaxWait == 30000
ReadyPollDelay == 500

\* initFFmpeg runs at most MaxAttempts times in one behaviour
MaxAttempts == 3
\* compress is called at most MaxCompress times in one behaviour
MaxCompress == 2

\* window.FFmpeg: undefined, defined without the FFmpeg class, or complete
Scripts == {"absent", "noClass", "ok"}

\* the files handed to compress
Files == {"movie"}

\* TranscoderState, read from the fields of the engine
StateOf(e) ==
    IF e.isInitializing THEN "Initializing"
    ELSE IF e.isReady THEN "Ready"
    ELSE IF e.attempts = 0 THEN "Uninitialized"
    ELSE "Failed"

\* the states the engine passes through during one step
Visit(e) == [e EXCEPT !.trail = Append(@, StateOf(e))]

Begin(e) == [e EXCEPT !.trail = <<StateOf(e)>>]

Timer(kind, due, id) == [kind |-> kind, due |-> due, id |-> id]

\* the constructor up to the call of initFFmpeg
NewEngine(script) ==
    [on |-> TRUE, isReady |-> FALSE, isInitializing |-> FALSE,
     ffmpeg |-> "null", script |-> script, pc |-> "new", start |-> 0,
     attempts |-> 0, timers |-> {}, trail |-> << >>, stable |-> FALSE,
     loading |-> "none"]

\* (variant: the catch block schedules no retry)
initFailedNoRetry(e, t) ==
    Visit([e EXCEPT !.isInitializing = FALSE, !.isReady = FALSE, !.pc = "none"])

\* (variant: the catch block schedules the retry twice)
initFailedRetriesTwice(e, t) ==
    Visit([e EXCEPT !.isInitializing = FALSE,
                    !.isReady = FALSE,
                    !.pc = "none",
                    !.timers = @ \cup {Timer("retry", t + RetryDelay, e.attempts),
                                       Timer("retry", t + 2 * RetryDelay,
                                             e.attempts)}])

\* initFFmpeg, the catch block
initFailed(e, t) ==
    Visit([e EXCEPT !.isInitializing = FALSE,
                    !.isReady = FALSE,
                    !.pc = "none",
                    !.timers = @ \cup {Timer("retry", t + RetryDelay, e.attempts)}])

\* initFFmpeg from the check of window.FFmpeg to the await of load
afterScript(e, t, inst) ==
    IF e.script # "ok" THEN initFailed(e, t)
    ELSE IF ~inst THEN initFailed(e, t)
    ELSE [e EXCEPT !.ffmpeg = "instance", !.loading = "pending", !.pc = "load"]

\* initFFmpeg from its entry to its first await
initFFmpeg(e, t, inst) ==
    IF e.isInitializing THEN [e EXCEPT !.pc = IF @ = "new" THEN "none" ELSE @]
    ELSE LET e1 == Visit([e EXCEPT !.isInitializing = TRUE,
                                   !.attempts = @ + 1, !.pc = "none"])
         IN  IF e1.script = "absent"
             THEN [e1 EXCEPT !.pc = "waitScript", !.start = t,
                     !.timers = @ \cup {Timer("scriptPoll", t + ScriptPollDelay, 0)}]
             ELSE afterScript(e1, t, inst)

\* a retry timer is served while the bound on attempts allows it
Fireable(f) == f.kind = "retry" => engine.attempts < MaxAttempts

\* timers are served in the order of their due instants
Due(f) ==
    /\ f \in engine.timers
    /\ Fireable(f)
    /\ \A g \in engine.timers : Fireable(g) => f.due <= g.due

Later(t, due) == IF due > t THEN due ELSE t

\* whether `new FFmpeg.FFmpeg()` and `ffmpeg.load()` succeed: either way,
\* until the page and the backend have become stable
Chances(e) == IF e.stable THEN {TRUE} ELSE BOOLEAN

\* (variant: the wait is given up at its first turn)
waitExpiredAtOnce(elapsed, maxWait) == elapsed >= 0

\* Date.now() - startTime > maxWait
waitExpired(elapsed, maxWait) == elapsed > maxWait

\* new VideoCompressionEngine(): this.initFFmpeg()
Construct ==
    \E inst \in Chances(engine) :
        /\ engine.pc = "new"
        /\ engine' = initFFmpeg(Begin(engine), now, inst)
        /\ UNCHANGED <<now, reportVars, cacheVars, job, pipe, net, calc>>

\* the page finishes loading the FFmpeg script; the instants at which this
\* happens are taken from the multiples of 10 s
ScriptLoads ==
    \E s \in {"noClass", "ok"} :
        /\ engine.pc # "new"
        /\ engine.script = "absent"
        /\ now % ScriptMaxWait = 0
        /\ engine' = [Begin(engine) EXCEPT !.script = s]
        /\ UNCHANGED <<now, reportVars, cacheVars, job, pipe, net, calc>>

\* waitForFFmpegScript: one turn of the loop after its 100 ms timer, and, when
\* the loop ends, initFFmpeg up to its next await
ScriptPoll ==
    \E f \in engine.timers, inst \in Chances(engine) :
        /\ Due(f) /\ f.kind = "scriptPoll"
        /\ now' = Later(now, f.due)
        /\ LET e == [Begin(engine) EXCEPT !.timers = @ \ {f}]
           IN  engine' =
                 IF e.script # "absent" THEN afterScript(e, now', inst)
                 ELSE IF waitExpired(now' - e.start, ScriptMaxWait)
                 THEN initFailed(e, now')
                 ELSE [e EXCEPT !.timers =
                         @ \cup {Timer("scriptPoll", now' + ScriptPollDelay, 0)}]
        /\ UNCHANGED <<reportVars, cacheVars, job, pipe, net, calc>>

\* (variant: isReady is set and isInitializing is left as it was)
loadSucceededKeepsFlag(e) ==
    Visit([e EXCEPT !.isReady = TRUE, !.loading = "ok", !.pc = "none"])

\* initFFmpeg after the await of load: this.isReady = true,
\* this.isInitializing = false
loadSucceeded(e) ==
    Visit([e EXCEPT !.isReady = TRUE, !.isInitializing = FALSE,
                    !.loading = "ok", !.pc = "none"])

\* await this.ffmpeg.load(...) settles; `loading` records what became of the
\* load() of the instance the field ffmpeg holds
LoadSettles ==
    \E ok \in Chances(engine) :
        /\ engine.pc = "load"
        /\ engine' =
             IF ok THEN loadSucceeded(Begin(engine))
             ELSE initFailed([Begin(engine) EXCEPT !.loading = "failed"], now)
        /\ UNCHANGED <<now, reportVars, cacheVars, job, pipe, net, calc>>

\* the retry timer: () => this.initFFmpeg()
RetryFires ==
    \E f \in engine.timers, inst \in Chances(engine) :
        /\ Due(f) /\ f.kind = "retry"
        /\ now' = Later(now, f.due)
        /\ engine' = initFFmpeg([Begin(engine) EXCEPT !.timers = @ \ {f}],
                                now', inst)
        /\ UNCHANGED <<reportVars, cacheVars, job, pipe, net, calc>>

(***************************************************************************)
(* compress.js: VideoCompressionEngine.compress (engine with initFFmpeg)   *)
(***************************************************************************)
IdleJob ==
    [pc |-> "idle", n |-> 0, file |-> "none", start |-> 0, progress |-> << >>,
     wrote |-> FALSE, unlinked |-> FALSE, ready0 |-> FALSE, prev |-> "none",
     result |-> [kind |-> "none"]]

\* (variant: a failed call marks the engine as not ready)
compressFailedRevokes(e) == [e EXCEPT !.isReady = FALSE]

\* compress, the catch block: what it does to the engine
compressFailed(e) == e

\* compress, the catch block: throw new Error(`Compression failed: ...`)
Reject(j, cause) ==
    [j EXCEPT !.pc = "done",
              !.result = [kind |-> "rejected",
                          error |-> <<"Compression failed: ", cause>>]]

onProgress(j, percents) == [j EXCEPT !.progress = @ \o percents]

\* compress from the return of waitUntilReady to the await of readFile
afterReady(j) == [onProgress(j, <<5>>) EXCEPT !.pc = "read"]

\* compress(file, onProgress) from its entry to its first pending await; the
\* calls are made right after the construction or on a ready engine
StartCompress ==
    \E file \in Files :
        /\ engine.pc # "new"
        /\ engine.isReady \/ now = 0
        /\ job.pc \in {"idle", "done"}
        /\ job.n < MaxCompress
        /\ LET j == [IdleJob EXCEPT !.n = job.n + 1, !.file = file,
                                    !.start = now, !.ready0 = engine.isReady,
                                    !.prev = job.result.kind]
           IN  IF engine.isReady
               THEN /\ job' = afterReady(j)
                    /\ engine' = engine
               ELSE /\ job' = [j EXCEPT !.pc = "waitReady"]
                    /\ engine' = [Begin(engine) EXCEPT !.timers =
                         @ \cup {Timer("readyPoll", now + ReadyPollDelay, 0)}]
        /\ UNCHANGED <<now, reportVars, cacheVars, pipe, net, calc>>

\* waitUntilReady: one turn of the loop after its 500 ms timer
ReadyPoll ==
    \E f \in engine.timers :
        /\ Due(f) /\ f.kind = "readyPoll"
        /\ now' = Later(now, f.due)
        /\ LET e == [Begin(engine) EXCEPT !.timers = @ \ {f}]
           IN  IF e.isReady
               THEN /\ job' = afterReady(job)
                    /\ engine' = e
               ELSE IF waitExpired(now' - job.start, ReadyMaxWait)
               THEN /\ job' = Reject(job, "FFmpeg initialization timeout")
                    /\ engine' = compressFailed(e)
               ELSE /\ job' = job
                    /\ engine' = [e EXCEPT !.timers =
                         @ \cup {Timer("readyPoll", now' + ReadyPollDelay, 0)}]
        /\ UNCHANGED <<reportVars, cacheVars, pipe, net, calc>>

\* readFile settles; then FS('writeFile'), the checkpoints 15, 20, 30 and the
\* await of ffmpeg.run inside runCompression
ReadSettles ==
    \E ok \in BOOLEAN, fsOk \in BOOLEAN :
        /\ job.pc = "read"
        /\ IF ~ok
           THEN /\ job' = Reject(job, "read error")
                /\ engine' = compressFailed(engine)
           ELSE IF ~fsOk
           THEN /\ job' = Reject(job, "FS writeFile error")
                /\ engine' = compressFailed(engine)
           ELSE /\ job' = [onProgress(job, <<15, 20, 30>>) EXCEPT
                             !.wrote = TRUE, !.pc = "run"]
                /\ engine' = engine
        /\ UNCHANGED <<now, reportVars, cacheVars, pipe, net, calc>>

\* ffmpeg.run settles; then the checkpoints 85, 95, FS('readFile'), the two
\* unlink calls inside their own try, the checkpoint 100 and the return
RunSettles ==
    \E ok \in BOOLEAN, outOk \in BOOLEAN :
        /\ job.pc = "run"
        /\ IF ~ok
           THEN /\ job' = Reject(job, "run error")
                /\ engine' = compressFailed(engine)
           ELSE IF ~outOk
           THEN /\ job' = Reject(onProgress(job, <<85, 95>>),
                                 "FS readFile error")
                /\ engine' = compressFailed(engine)
           ELSE /\ job' = [onProgress(job, <<85, 95, 100>>) EXCEPT
                             !.unlinked = TRUE, !.pc = "done",
                             !.result = [kind |-> "resolved",
                                         value |-> [type |-> "blob",
                                                    of |-> job.file]]]
                /\ engine' = engine
        /\ UNCHANGED <<now, reportVars, cacheVars, pipe, net, calc>>

InitEngine ==
    /\ now = 0
    /\ reportRateLimit = EmptyMap
    /\ obs = [c \in ClientIds |-> NoObs]
    /\ last = NoRequest
    /\ watch = NoWatch
    /\ cache = EmptyMap
    /\ inflight = << >>
    /\ host = [exists |-> {}, epoch |-> 0]
    /\ writes = [ops |-> 0, max |-> 0, pending |-> << >>, acked |-> EmptyMap]
    /\ misses = EmptyMap
    /\ seen = [op |-> "none"]
    /\ engine \in {NewEngine(s) : s \in Scripts}
    /\ job = IdleJob
    /\ pipe = [on |-> FALSE]
    /\ NoTransport

NextEngine ==
    \/ Construct
    \/ ScriptLoads
    \/ ScriptPoll
    \/ LoadSettles
    \/ RetryFires
    \/ StartCompress
    \/ ReadyPoll
    \/ ReadSettles
    \/ RunSettles

\* one engine from its construction on, with the compress calls made on it
SpecEngine == InitEngine /\ [][NextEngine]_vars

(***************************************************************************)
(* The compression engine: claims                                          *)
(***************************************************************************)
Transitions ==
    {<<"Uninitialized", "Initializing">>, <<"Initializing", "Ready">>,
     <<"Initializing", "Failed">>, <<"Failed", "Initializing">>}

\* the step contains a failed attempt of initFFmpeg
AttemptFailed ==
    /\ engine' # engine
    /\ job' = job
    /\ \E i \in 2..Len(engine'.trail) : engine'.trail[i] = "Failed"

RetryTimers(e) == {f \in e.timers : f.kind = "retry"}

\* C12: the state of the engine changes only in steps of initFFmpeg (not in
\* steps of compress, not when the script arrives) and only along
\* Uninitialized->Initializing, Initializing->Ready, Initializing->Failed,
\* Failed->Initializing; every failed attempt, whatever its number, leaves
\* exactly one new retry timer, due 1000 ms after the failure.
C12_StateMachine ==
    /\ [](engine.pc # "new" =>
            /\ engine.trail[Len(engine.trail)] = StateOf(engine)
            /\ \A i \in 1..(Len(engine.trail) - 1) :
                  \/ engine.trail[i] = engine.trail[i + 1]
                  \/ <<engine.trail[i], engine.trail[i + 1]>> \in Transitions)
    /\ [][(job' # job \/ engine'.script # engine.script)
            => StateOf(engine') = StateOf(engine)]_vars
    /\ [][StateOf(engine') # StateOf(engine)
            => engine'.trail[1] = StateOf(engine)]_vars
    /\ [][AttemptFailed =>
            RetryTimers(engine') \ RetryTimers(engine) =
                {Timer("retry", now' + 1000, engine'.attempts)}]_vars

\* the engine failed at least once, was retried and became Ready
C12_Witness ==
    /\ engine.on /\ engine.pc = "none"
    /\ engine.attempts >= 2
    /\ engine.isReady
    /\ engine.trail = <<"Initializing", "Ready">>

\* C13: every compress call that has settled has resolved (with the input
\* object itself when the backend failed), and the last progress value it
\* delivered is 100.
C13_NeverRejects ==
    job.pc = "done" =>
        /\ job.result.kind = "resolved"
        /\ job.progress # << >>
        /\ job.progress[Len(job.progress)] = 100

\* C14: a compress call that settles without the engine having become Ready
\* within the 30 s of waitUntilReady resolves with the input unmodified.
C14_TimeoutPassesThrough ==
    (job.pc = "done" /\ ~job.ready0 /\ job.progress = << >>
        /\ now - job.start > 30000)
    => (/\ job.result.kind = "resolved"
        /\ job.result.value = [type |-> "file", of |-> job.file])

\* C15: no step of compress changes isReady or isInitializing; an engine that
\* was Ready when a call started is Ready when that call has settled, whether
\* the call failed or not, and the next call goes to the backend without
\* waiting.
C15_ReadinessKept ==
    /\ [][job' # job =>
            /\ engine'.isReady = engine.isReady
            /\ engine'.isInitializing = engine.isInitializing]_vars
    /\ []((job.pc # "idle" /\ job.ready0) =>
            (engine.isReady /\ job.pc # "waitReady"))

\* on a Ready engine a call failed, and the next call has reached ffmpeg.run
C15_Witness ==
    /\ job.pc = "run" /\ job.n = 2 /\ job.prev = "rejected"
    /\ job.ready0 /\ engine.isReady /\ ~engine.isInitializing

\* C16: a compress call that wrote input.mp4 into the backend's file system
\* has attempted the unlink of the transient files by the time it settles.
C16_TransientReleased == (job.pc = "done" /\ job.wrote) => job.unlinked

(***************************************************************************)
(* compress.js: the simplified VideoCompressionEngine (no initFFmpeg)      *)
(***************************************************************************)
\* files of at most 100 MB, of more than 100 MB and of more than 5 GB,
\* and one file that is not a video
SimpleFiles ==
    {[name |-> "clip", video |-> TRUE, big |-> FALSE, huge |-> FALSE],
     [name |-> "film", video |-> TRUE, big |-> TRUE, huge |-> FALSE],
     [name |-> "raw", video |-> TRUE, big |-> TRUE, huge |-> TRUE],
     [name |-> "notes", video |-> FALSE, big |-> FALSE, huge |-> FALSE]}

\* the constructor: this.ffmpeg = null, this.isReady = true
SimpleEngine(script) ==
    [on |-> TRUE, isReady |-> TRUE, ffmpeg |-> "null", script |-> script]

\* fallbackCompress(file, onProgress): 50, then 100 on either branch of the
\* size test, and the file itself is returned
fallbackCompress(j) ==
    [onProgress(j, IF j.file.big THEN <<50, 100>> ELSE <<50, 100>>) EXCEPT
        !.pc = "done",
        !.result = [kind |-> "resolved",
                    value |-> [type |-> "file", of |-> j.file]]]

\* compress(file, onProgress) and compressWithFFmpeg up to the await of load:
\* the call as it stands then, and the engine
compressSimple(e, j0, inst) ==
    LET j == onProgress(j0, <<10>>)
    IN  IF e.script # "ok"
        THEN [job |-> fallbackCompress(j), engine |-> e]
        ELSE IF ~inst
        THEN [job |-> fallbackCompress(onProgress(j, <<20>>)), engine |-> e]
        ELSE [job |-> [onProgress(j, <<20, 30>>) EXCEPT !.pc = "simpleLoad"],
              engine |-> [e EXCEPT !.ffmpeg = "instance"]]

\* await this.ffmpeg.load settles; then 40 and the await of readFile
LoadSimple ==
    \E ok \in BOOLEAN :
        /\ job.pc = "simpleLoad"
        /\ job' = IF ok THEN [onProgress(job, <<40>>) EXCEPT !.pc = "simpleRead"]
                  ELSE fallbackCompress(job)
        /\ UNCHANGED <<now, reportVars, cacheVars, engine, pipe, net, calc>>

\* readFile settles; then FS('writeFile'), 50 and the await of ffmpeg.run
ReadSimple ==
    \E ok \in BOOLEAN, fsOk \in BOOLEAN :
        /\ job.pc = "simpleRead"
        /\ job' = IF ok /\ fsOk
                  THEN [onProgress(job, <<50>>) EXCEPT !.wrote = TRUE,
                                                       !.pc = "simpleRun"]
                  ELSE fallbackCompress(job)
        /\ UNCHANGED <<now, reportVars, cacheVars, engine, pipe, net, calc>>

\* ffmpeg.run settles; then 80, FS('readFile'), the unlink calls, 100 and the
\* blob; any failure goes to fallbackCompress
RunSimple ==
    \E ok \in BOOLEAN, outOk \in BOOLEAN :
        /\ job.pc = "simpleRun"
        /\ job' = IF ~ok THEN fallbackCompress(job)
                  ELSE IF ~outOk THEN fallbackCompress(onProgress(job, <<80>>))
                  ELSE [onProgress(job, <<80, 100>>) EXCEPT
                          !.unlinked = TRUE, !.pc = "done",
                          !.result = [kind |-> "resolved",
                                      value |-> [type |-> "blob",
                                                 of |-> job.file]]]
        /\ UNCHANGED <<now, reportVars, cacheVars, engine, pipe, net, calc>>

\* the page finishes loading the FFmpeg script
ScriptArrives ==
    \E s \in {"noClass", "ok"} :
        /\ engine.script = "absent"
        /\ engine' = [engine EXCEPT !.script = s]
        /\ UNCHANGED <<now, reportVars, cacheVars, job, pipe, net, calc>>

(***************************************************************************)
(* github-api-netlify.js: uploadWithMetadata, createRelease, uploadAsset   *)
(* Progress values are written in hundredths of a percent.                 *)
(***************************************************************************)
\* uploadWithMetadata is called at most MaxUploads times in one behaviour
MaxUploads == 2

\* metadata.file_id
FileIds == {"idA", "idB"}

\* how a request to the github-upload function ends: a 2xx answer with
\* success true, a 2xx answer with success false, a non-2xx answer, or no
\* answer (network failure, abort after requestTimeout)
Outcomes == {"ok", "unsuccessful", "httpError", "transport"}

NoData == [release_id |-> 0, upload_url |-> <<"undefined">>,
           html_url |-> <<"undefined">>]

NoAsset == [asset_id |-> 0, download_url |-> <<"undefined">>,
            name |-> <<"undefined">>]

NoPipe(orch) ==
    [on |-> TRUE, orch |-> orch, uploads |-> << >>, sent |-> << >>,
     hosted |-> << >>, nextId |-> 1, stored |-> << >>]

\* `video_${metadata.file_id}`
releaseTag(file_id) == <<"video_", file_id>>

\* `${metadata.file_id}.mp4`
assetName(file_id) == <<file_id, ".mp4">>

\* (variant: the upload_url is taken from the newest release any call got)
attachTargetLatest(us, i) ==
    LET got == {k \in DOMAIN us : us[k].release # NoData}
        newest == CHOOSE k \in got :
                     \A m \in got : us[m].release.release_id
                                        <= us[k].release.release_id
    IN  IF got = {} THEN NoData.upload_url ELSE us[newest].release.upload_url

\* release.upload_url, the local of this call
attachTarget(us, i) == us[i].release.upload_url

Settle(u, result) == [u EXCEPT !.pc = "done", !.result = result]

\* (variant: a failed fetch is sent a second time)
callFunctionRetrying(requests, req) == Append(Append(requests, req), req)

\* callFunction: one fetch for the request
callFunction(requests, req) == Append(requests, req)

\* (variant: after a failed attach the created release is deleted again)
attachFailedCompensates(p, i, outcome) ==
    [p EXCEPT !.uploads[i] =
                 Settle(p.uploads[i], [kind |-> "rejected",
                                       error |-> <<"upload-asset", outcome>>]),
              !.sent = Append(@, [action |-> "delete-release",
                                  releaseId |-> p.uploads[i].release.release_id,
                                  by |-> i])]

\* (variant: the progress of uploadAsset is passed on as it is)
overallPercentUnweighted(percent) == percent * 100

\* the callback uploadWithMetadata hands to uploadAsset:
\* overallPercent = 25 + percent * 0.75, in hundredths of a percent
overallPercent(percent) == 2500 + percent * 75

\* uploadAsset rejects; uploadWithMetadata logs the error and rethrows it
attachFailed(p, i, outcome) ==
    [p EXCEPT !.uploads[i] =
                 Settle(p.uploads[i], [kind |-> "rejected",
                                       error |-> <<"upload-asset", outcome>>])]

\* (variant: a failed create-release is ignored and the call goes on)
createFailedContinues(u, outcome) ==
    [u EXCEPT !.pc = "reading", !.progress = @ \o <<2500>>]

\* createRelease rejects; uploadWithMetadata logs the error and rethrows it
createFailed(u, outcome) ==
    Settle(u, [kind |-> "rejected", error |-> <<"create-release", outcome>>])

\* uploadWithMetadata(fileBlob, metadata, onProgress) up to the await inside
\* createRelease: onProgress(5), then the create-release request
UploadEntry(file_id, owner) ==
    [pipe EXCEPT
       !.uploads = Append(@, [file_id |-> file_id, owner |-> owner,
                              pc |-> "create", progress |-> <<500>>,
                              created |-> "none", attached |-> "none",
                              calls |-> 1,
                              release |-> NoData, asset |-> NoAsset,
                              result |-> [kind |-> "none"]]),
       !.sent = callFunction(@, [action |-> "create-release",
                                 releaseTag |-> releaseTag(file_id),
                                 by |-> Len(pipe.uploads) + 1])]

UploadWithMetadata ==
    \E file_id \in FileIds :
        /\ Len(pipe.uploads) < MaxUploads
        /\ pipe' = UploadEntry(file_id, "caller")
        /\ UNCHANGED <<now, reportVars, cacheVars, engine, job, net, calc>>

\* the create-release request settles; on success onProgress(25) and
\* uploadAsset up to reader.readAsDataURL
CreateSettles ==
    \E i \in DOMAIN pipe.uploads, outcome \in Outcomes :
        LET u == pipe.uploads[i]
            id == pipe.nextId
            data == [release_id |-> id, upload_url |-> <<"upload_url", id>>,
                     html_url |-> <<"html_url", id>>]
        IN  /\ u.pc = "create"
            /\ IF outcome = "ok"
               THEN pipe' = [pipe EXCEPT
                       !.uploads[i] = [u EXCEPT !.release = data,
                                                !.created = outcome,
                                                !.pc = "reading",
                                                !.progress = @ \o <<2500>>],
                       !.hosted = Append(@, [event |-> "created", id |-> id,
                                             tag |-> pipe.sent[
                                                CHOOSE k \in DOMAIN pipe.sent :
                                                   /\ pipe.sent[k].by = i
                                                   /\ pipe.sent[k].action =
                                                        "create-release"
                                                ].releaseTag,
                                             by |-> i]),
                       !.nextId = id + 1]
               ELSE pipe' = [pipe EXCEPT !.uploads[i] =
                       createFailed([u EXCEPT !.created = outcome], outcome)]
            /\ UNCHANGED <<now, reportVars, cacheVars, engine, job, net, calc>>

\* uploadAsset: the FileReader ends; onload reports 50 (25 + 50 * 0.75 for
\* the caller) and sends the upload-asset request, onerror rejects
ReaderSettles ==
    \E i \in DOMAIN pipe.uploads, ok \in BOOLEAN :
        LET u == pipe.uploads[i]
        IN  /\ u.pc = "reading"
            /\ IF ok
               THEN pipe' = [pipe EXCEPT
                       !.uploads[i] = [u EXCEPT !.pc = "attach",
                                                !.calls = @ + 1,
                                                !.progress = @ \o <<overallPercent(50)>>],
                       !.sent = callFunction(@,
                                   [action |-> "upload-asset",
                                    uploadUrl |-> attachTarget(pipe.uploads, i),
                                    fileName |-> assetName(u.file_id),
                                    by |-> i])]
               ELSE pipe' = [pipe EXCEPT !.uploads[i] =
                       Settle(u, [kind |-> "rejected",
                                  error |-> <<"Failed to read file">>])]
            /\ UNCHANGED <<now, reportVars, cacheVars, engine, job, net, calc>>

\* the upload-asset request settles; on success uploadAsset reports 100 and
\* resolves, uploadWithMetadata reports 100 and returns the identifiers
AttachSettles ==
    \E i \in DOMAIN pipe.uploads, outcome \in Outcomes :
        LET u == pipe.uploads[i]
            id == pipe.nextId
            req == pipe.sent[CHOOSE k \in DOMAIN pipe.sent :
                               /\ pipe.sent[k].by = i
                               /\ pipe.sent[k].action = "upload-asset"]
            asset == [asset_id |-> id,
                      download_url |-> <<"download", req.uploadUrl, req.fileName>>,
                      name |-> req.fileName]
        IN  /\ u.pc = "attach"
            /\ IF outcome = "ok"
               THEN pipe' = [pipe EXCEPT
                       !.uploads[i] = [u EXCEPT
                           !.asset = asset,
                           !.attached = outcome,
                           !.pc = "done",
                           !.progress = @ \o <<overallPercent(100), 10000>>,
                           !.result = [kind |-> "resolved",
                                       value |-> [release_id |-> u.release.release_id,
                                                  asset_id |-> asset.asset_id,
                                                  asset_url |-> asset.download_url,
                                                  release_url |-> u.release.html_url,
                                                  file_name |-> asset.name]]],
                       !.hosted = Append(@, [event |-> "attached", id |-> id,
                                             to |-> req.uploadUrl,
                                             name |-> req.fileName, by |-> i]),
                       !.nextId = id + 1]
               ELSE pipe' = attachFailed(
                               [pipe EXCEPT !.uploads[i].attached = outcome],
                               i, outcome)
            /\ UNCHANGED <<now, reportVars, cacheVars, engine, job, net, calc>>

NoRun == [pc |-> "idle", shown |-> 0, isProcessing |-> FALSE]

InitDelivery ==
    /\ now = 0
    /\ reportRateLimit = EmptyMap
    /\ obs = [c \in ClientIds |-> NoObs]
    /\ last = NoRequest
    /\ watch = NoWatch
    /\ cache = EmptyMap
    /\ inflight = << >>
    /\ host = [exists |-> {}, epoch |-> 0]
    /\ writes = [ops |-> 0, max |-> 0, pending |-> << >>, acked |-> EmptyMap]
    /\ misses = EmptyMap
    /\ seen = [op |-> "none"]
    /\ engine = [on |-> FALSE]
    /\ job = [pc |-> "idle"]
    /\ pipe = NoPipe(NoRun)
    /\ NoTransport

NextDelivery ==
    \/ UploadWithMetadata
    \/ CreateSettles
    \/ ReaderSettles
    \/ AttachSettles

\* uploadWithMetadata calls, several of them in flight
SpecDelivery == InitDelivery /\ [][NextDelivery]_vars

(***************************************************************************)
(* Delivery: claims                                                        *)
(***************************************************************************)
SentBy(i, action) ==
    {k \in DOMAIN pipe.sent :
        pipe.sent[k].by = i /\ pipe.sent[k].action = action}

HostedBy(i, event) ==
    {k \in DOMAIN pipe.hosted :
        pipe.hosted[k].by = i /\ pipe.hosted[k].event = event}

\* C19: an upload-asset request of a call is sent only once the create-release
\* request of that call has been answered with success, and after it; a call
\* whose create-release failed (no answer, non-2xx, success false) has
\* rejected with that error and has sent no upload-asset request.
C19_AttachAfterCreate ==
    \A i \in DOMAIN pipe.uploads :
        LET u == pipe.uploads[i]
        IN  /\ \A k \in SentBy(i, "upload-asset") :
                  /\ u.created = "ok"
                  /\ HostedBy(i, "created") # {}
                  /\ \E c \in SentBy(i, "create-release") : c < k
            /\ u.created \in {"unsuccessful", "httpError", "transport"} =>
                  /\ u.pc = "done"
                  /\ u.result = [kind |-> "rejected",
                                 error |-> <<"create-release", u.created>>]
                  /\ SentBy(i, "upload-asset") = {}

\* one call failed at create-release, another one has sent its attach request
C19_Witness ==
    /\ pipe.on
    /\ \E i, j \in DOMAIN pipe.uploads :
          /\ pipe.uploads[i].created = "httpError"
          /\ pipe.uploads[j].pc = "attach"
          /\ SentBy(j, "upload-asset") # {}

\* C20: each call creates the container with tag video_<file_id>, attaches
\* under the name <file_id>.mp4 to the upload_url the host returned for its
\* own container, and returns the id of that container together with the
\* asset id and url the host returned for its own attach request.
C20_ResultBinding ==
    \A i \in DOMAIN pipe.uploads :
        LET u == pipe.uploads[i]
            made == {pipe.hosted[k].id : k \in HostedBy(i, "created")}
            put == {pipe.hosted[k].id : k \in HostedBy(i, "attached")}
        IN  /\ \A k \in SentBy(i, "create-release") :
                  pipe.sent[k].releaseTag = <<"video_", u.file_id>>
            /\ \A k \in SentBy(i, "upload-asset") :
                  /\ \E id \in made : pipe.sent[k].uploadUrl = <<"upload_url", id>>
                  /\ pipe.sent[k].fileName = <<u.file_id, ".mp4">>
            /\ u.result.kind = "resolved" =>
                  /\ made = {u.result.value.release_id}
                  /\ put = {u.result.value.asset_id}
                  /\ u.result.value.asset_url =
                        <<"download", <<"upload_url", u.result.value.release_id>>,
                          <<u.file_id, ".mp4">>>>

\* two calls overlapped (containers created in one order, assets attached in
\* the other) and both returned
C20_Witness ==
    /\ pipe.on /\ Len(pipe.uploads) = 2
    /\ pipe.uploads[1].result.kind = "resolved"
    /\ pipe.uploads[2].result.kind = "resolved"
    /\ pipe.uploads[1].file_id # pipe.uploads[2].file_id
    /\ pipe.uploads[1].result.value.release_id < pipe.uploads[2].result.value.release_id
    /\ pipe.uploads[1].result.value.asset_id > pipe.uploads[2].result.value.asset_id

(***************************************************************************)
(* handleFileSelect: upload-netlify.js (compression is the first 50 %) and *)
(* the fast variant in compress.js (compression is the first 40 %)         *)
(***************************************************************************)
Variants == {"half", "fast"}

\* the engine with initFFmpeg once it is Ready
ReadyEngine ==
    [NewEngine("ok") EXCEPT !.isReady = TRUE, !.pc = "none",
                            !.ffmpeg = "instance", !.attempts = 1,
                            !.loading = "ok",
                            !.trail = <<"Initializing", "Ready">>]

IsSimple(e) == "attempts" \notin DOMAIN e

\* the checks at the head of handleFileSelect that end in showError
Refused(variant, file) ==
    \/ ~file.video
    \/ variant = "fast" /\ file.huge

\* appState.compression.compress(file, ...) up to its first pending await
compressEntry(e, j0, inst) ==
    IF IsSimple(e) THEN compressSimple(e, j0, inst)
    ELSE [job |-> afterReady(j0), engine |-> e]

\* (variant: showError leaves appState.isProcessing as it is)
showErrorKeepsProcessing(o) == [o EXCEPT !.shown = @ + 1]

\* showError(message)
showError(o) == [o EXCEPT !.shown = @ + 1, !.isProcessing = FALSE]

\* a run of handleFileSelect(file) at its entry; prev and same tell what the
\* run before it was, stored0 and uploads0 what was there when it began
Run(variant, file) ==
    [pc |-> "entry", variant |-> variant, file |-> file, upload |-> 0,
     shown |-> 0, isProcessing |-> pipe.orch.isProcessing,
     prev |-> pipe.orch.pc,
     same |-> (pipe.orch.pc # "idle" /\ pipe.orch.file = file),
     stored0 |-> Len(pipe.stored), uploads0 |-> Len(pipe.uploads)]

\* showProcessing()
showProcessing(o) == [o EXCEPT !.isProcessing = TRUE]

\* the catch block of handleFileSelect
catchBlock(o) == [showError(o) EXCEPT !.pc = "failed"]

\* handleFileSelect(file) up to the await of compress
HandleFileSelectOf(variant) ==
    \E file \in SimpleFiles, inst \in BOOLEAN :
        /\ pipe.orch.pc \in {"idle", "refused", "done", "failed"}
        /\ job.pc \in {"idle", "done"}
        /\ job.n < MaxCompress
        /\ Len(pipe.uploads) < MaxUploads
        /\ IF Refused(variant, file)
           THEN /\ pipe' = [pipe EXCEPT !.orch =
                       [showError(Run(variant, file)) EXCEPT !.pc = "refused"]]
                /\ UNCHANGED <<job, engine, net, calc>>
           ELSE LET j0 == [IdleJob EXCEPT !.n = job.n + 1, !.file = file,
                                          !.ready0 = engine.isReady,
                                          !.prev = job.result.kind]
                    c == compressEntry(engine, j0, inst)
                IN  /\ pipe' = [pipe EXCEPT !.orch =
                           [showProcessing(Run(variant, file)) EXCEPT
                               !.pc = "compress"]]
                    /\ job' = c.job
                    /\ engine' = c.engine
        /\ UNCHANGED <<now, reportVars, cacheVars, net, calc>>

HandleFileSelect == \E variant \in Variants : HandleFileSelectOf(variant)

\* (variant: handleFileSelect goes on without awaiting compress)
compressNotAwaited(j) == j.pc # "idle"

\* `await appState.compression.compress(...)`: the promise has settled
compressSettled(j) == j.pc = "done"

\* handleFileSelect after the await of compress: the catch block when compress
\* rejected; otherwise updateProgress(40 or 50), generateUUID and
\* uploadWithMetadata up to its first await
AfterCompress ==
    \E file_id \in FileIds :
        /\ pipe.orch.pc = "compress"
        /\ compressSettled(job)
        /\ IF job.result.kind = "rejected"
           THEN pipe' = [pipe EXCEPT !.orch = catchBlock(@)]
           ELSE pipe' = [UploadEntry(file_id, "handleFileSelect") EXCEPT
                            !.orch.pc = "upload",
                            !.orch.upload = Len(pipe.uploads) + 1]
        /\ UNCHANGED <<now, reportVars, cacheVars, engine, job, net, calc>>

\* handleFileSelect after the await of uploadWithMetadata: addUpload,
\* updateProgress(100) and showSuccess, or the catch block
AfterUpload ==
    /\ pipe.orch.pc = "upload"
    /\ pipe.uploads[pipe.orch.upload].pc = "done"
    /\ LET u == pipe.uploads[pipe.orch.upload]
       IN  IF u.result.kind = "resolved"
           THEN pipe' = [pipe EXCEPT
                            !.orch.pc = "done",
                            !.stored = Append(@, [file_id |-> u.file_id,
                                                  release_id |-> u.result.value.release_id])]
           ELSE pipe' = [pipe EXCEPT !.orch = catchBlock(@)]
    /\ UNCHANGED <<now, reportVars, cacheVars, engine, job, net, calc>>

\* the values handleFileSelect has passed to updateProgress, in order and in
\* hundredths of a percent: 5 first in the fast variant; percent * 0.4 or
\* percent * 0.5 for each value compress delivers; 40 or 50 when compress has
\* returned; 40 + percent * 0.6 or 50 + percent * 0.5 for each value
\* uploadWithMetadata delivers; 100 at the end
updateProgress ==
    LET o == pipe.orch
        fast == o.variant = "fast"
        first == IF fast THEN <<500>> ELSE << >>
        one == [i \in 1..Len(job.progress) |->
                  job.progress[i] * (IF fast THEN 40 ELSE 50)]
        between == IF o.upload # 0
                   THEN <<IF fast THEN 4000 ELSE 5000>> ELSE << >>
        q == IF o.upload # 0 THEN pipe.uploads[o.upload].progress ELSE << >>
        two == [i \in 1..Len(q) |->
                  IF fast THEN 4000 + (q[i] * 60) \div 100
                  ELSE 5000 + (q[i] * 50) \div 100]
        final == IF o.pc = "done" THEN <<10000>> ELSE << >>
    IN  IF o.pc \in {"idle", "refused"} THEN << >>
        ELSE first \o one \o between \o two \o final

InitPipeline ==
    /\ now = 0
    /\ reportRateLimit = EmptyMap
    /\ obs = [c \in ClientIds |-> NoObs]
    /\ last = NoRequest
    /\ watch = NoWatch
    /\ cache = EmptyMap
    /\ inflight = << >>
    /\ host = [exists |-> {}, epoch |-> 0]
    /\ writes = [ops |-> 0, max |-> 0, pending |-> << >>, acked |-> EmptyMap]
    /\ misses = EmptyMap
    /\ seen = [op |-> "none"]
    /\ engine \in {SimpleEngine(s) : s \in Scripts} \cup {ReadyEngine}
    /\ job = IdleJob
    /\ pipe = NoPipe(NoRun)
    /\ NoTransport

NextPipeline ==
    \/ ScriptArrives
    \/ HandleFileSelect
    \/ LoadSimple
    \/ ReadSimple
    \/ RunSimple
    \/ ReadSettles
    \/ RunSettles
    \/ AfterCompress
    \/ CreateSettles
    \/ ReaderSettles
    \/ AttachSettles
    \/ AfterUpload

\* the orchestrator: one file at a time through compression and delivery
SpecPipeline == InitPipeline /\ [][NextPipeline]_vars

\* C17: the progress values one compress call delivers are non-decreasing in
\* the order delivered, on every path, and when the call has returned a
\* result the last value delivered is 100.
C17_ProgressMonotone ==
    /\ \A i \in 1..(Len(job.progress) - 1) :
          job.progress[i] <= job.progress[i + 1]
    /\ (job.pc = "done" /\ job.result.kind = "resolved") =>
          (job.progress # << >> /\ job.progress[Len(job.progress)] = 100)

\* C18: when a run of handleFileSelect has succeeded, the values it passed to
\* updateProgress are non-decreasing and the last one is exactly 100.
C18_GlobalMonotone ==
    pipe.orch.pc = "done" =>
        /\ \A i \in 1..(Len(updateProgress) - 1) :
              updateProgress[i] <= updateProgress[i + 1]
        /\ updateProgress[Len(updateProgress)] = 10000

AllSentBy(p, i) == {k \in DOMAIN p.sent : p.sent[k].by = i}

\* the attach phase of call i failed after its create phase succeeded
AttachFailedAfterCreate(i) ==
    /\ pipe.uploads[i].created = "ok"
    /\ pipe.uploads[i].pc = "done"
    /\ pipe.uploads[i].attached # "ok"

\* C21: when the attach phase of a call fails after its create phase
\* succeeded, the call has rejected with the attach error and without any
\* value, it has sent its one create-release and at most its one upload-asset
\* request and nothing else (no delete-release), it sends nothing afterwards,
\* and the container the host created for it is still there.
C21_NoCompensation ==
    /\ [](\A i \in DOMAIN pipe.uploads :
            AttachFailedAfterCreate(i) =>
                LET u == pipe.uploads[i]
                IN  /\ u.result.kind = "rejected"
                    /\ "value" \notin DOMAIN u.result
                    /\ u.result.error =
                          IF u.attached = "none" THEN <<"Failed to read file">>
                          ELSE <<"upload-asset", u.attached>>
                    /\ \A k \in AllSentBy(pipe, i) :
                          pipe.sent[k].action \in {"create-release", "upload-asset"}
                    /\ Cardinality(AllSentBy(pipe, i)) <= 2
                    /\ HostedBy(i, "created") # {})
    /\ [][\A i \in DOMAIN pipe.uploads :
            pipe.uploads[i].pc = "done" =>
                /\ AllSentBy(pipe', i) = AllSentBy(pipe, i)
                /\ pipe'.uploads[i] = pipe.uploads[i]]_vars

\* the attach request of a call was answered with a non-2xx status after its
\* container had been created, and another call was started afterwards
C21_Witness ==
    /\ pipe.on /\ Len(pipe.uploads) = 2
    /\ AttachFailedAfterCreate(1)
    /\ pipe.uploads[1].attached = "httpError"
    /\ pipe.uploads[2].pc = "create"

\* C22: each callFunction call has produced exactly one fetch, and each
\* uploadWithMetadata call has sent at most one create-release and at most
\* one upload-asset request, whatever failed.
C22_NoRetry ==
    \A i \in DOMAIN pipe.uploads :
        /\ Cardinality(AllSentBy(pipe, i)) = pipe.uploads[i].calls
        /\ Cardinality(SentBy(i, "create-release")) <= 1
        /\ Cardinality(SentBy(i, "upload-asset")) <= 1

\* both requests of a call were sent and the second one got no answer
C22_Witness ==
    /\ pipe.on
    /\ \E i \in DOMAIN pipe.uploads :
          /\ pipe.uploads[i].attached = "transport"
          /\ pipe.uploads[i].pc = "done"
          /\ Cardinality(AllSentBy(pipe, i)) = 2

\* C27: the values a call of uploadWithMetadata has passed to onProgress
\* are non-decreasing and lie in [0,100]; while the create phase has not
\* succeeded none exceeds 25; the values of the attach phase are
\* 25 + 0.75 * p for the local values p = 50 and p = 100; and 100 has been
\* reported exactly when both phases succeeded, and then it is the last value.
C27_DeliveryProgress ==
    \A i \in DOMAIN pipe.uploads :
        LET u == pipe.uploads[i]
            q == u.progress
            both == u.created = "ok" /\ u.attached = "ok"
        IN  /\ \A k \in DOMAIN q : q[k] >= 0 /\ q[k] <= 10000
            /\ \A k \in 1..(Len(q) - 1) : q[k] <= q[k + 1]
            /\ u.created # "ok" => \A k \in DOMAIN q : q[k] <= 2500
            /\ \A k \in DOMAIN q :
                  \/ k <= 2 /\ q[k] <= 2500
                  \/ k = 3 /\ 4 * q[k] = 4 * 2500 + 3 * (50 * 100)
                  \/ k = 4 /\ 4 * q[k] = 4 * 2500 + 3 * (100 * 100)
                  \/ k = 5 /\ q[k] = 10000 /\ u.pc = "done"
            /\ (\E k \in DOMAIN q : q[k] = 10000) <=> both
            /\ both => q[Len(q)] = 10000

\* one call has returned after reporting 5, 25, 62.5, 100, 100 and another
\* one has failed in its attach phase after reporting 5, 25, 62.5
C27_Witness ==
    /\ pipe.on
    /\ \E i, j \in DOMAIN pipe.uploads :
          /\ pipe.uploads[i].result.kind = "resolved"
          /\ pipe.uploads[i].progress = <<500, 2500, 6250, 10000, 10000>>
          /\ pipe.uploads[j].result.kind = "rejected"
          /\ pipe.uploads[j].attached = "unsuccessful"
          /\ pipe.uploads[j].progress = <<500, 2500, 6250>>

(***************************************************************************)
(* Transport clients: GitHubUploadManagerNetlify.callFunction              *)
(* (github-api-netlify.js) and NetlifyAPIClient.request (analyze.js).      *)
(* One call is: arm the abort timer, await fetch (the response headers),   *)
(* clear the timer, await response.json() (the body), look at response.ok. *)
(***************************************************************************)

requestTimeout == 30000

\* a timeout given by the caller (config.requestTimeout / options.timeout)
GivenTimeout == 20000

\* the clock advances in steps of NetTick
NetTick == 10000

MaxNetTicks == 5

MaxFetches == 2

Clients == {"callFunction", "request"}

\* 0: the caller gave no timeout
TimeoutArgs == {0, GivenTimeout}

Statuses == {200, 502}

\* the body of a response: JSON with an `error` field, JSON without one,
\* or text that is not JSON (an HTML error page of a gateway)
ResponseBodies == {"message", "plain", "invalid"}

ServerMessage == "server message"

\* config.requestTimeout || 30000, options.timeout || this.requestTimeout
EffectiveTimeout(arg) == IF arg = 0 THEN requestTimeout ELSE arg

Ok(status) == status \in 200..299

Pending == [kind |-> "pending"]

\* new Error(`Request timeout (${timeout}ms)`)
timeoutError(c) ==
    [name |-> "Error", text |-> "Request timeout", n |-> c.timeout, status |-> 0]

\* the TypeError fetch rejects with when no response arrives
networkError == [name |-> "TypeError", text |-> "Failed to fetch", n |-> 0, status |-> 0]

\* the SyntaxError response.json() rejects with
syntaxError == [name |-> "SyntaxError", text |-> "Unexpected token", n |-> 0, status |-> 0]

\* new Error(data.error || `HTTP ${response.status}`); callFunction also
\* sets error.status; status 0 stands for no status property
upstreamError(c, body) ==
    [name   |-> "Error",
     text   |-> IF body = "message" THEN ServerMessage ELSE "HTTP",
     n      |-> IF body = "message" THEN 0 ELSE c.status,
     status |-> IF c.client = "callFunction" THEN c.status ELSE 0]

SettleCall(c, result) ==
    [c EXCEPT !.pc = "done", !.result = result, !.settled = now]

\* the statements after `await response.json()`
afterBody(c, body) ==
    IF body = "invalid"
    THEN SettleCall([c EXCEPT !.body = body],
                    [kind |-> "rejected", error |-> syntaxError])
    ELSE IF ~Ok(c.status)
    THEN SettleCall([c EXCEPT !.body = body],
                    [kind |-> "rejected", error |-> upstreamError(c, body)])
    ELSE SettleCall([c EXCEPT !.body = body],
                    [kind |-> "resolved", data |-> body])

\* the catch block, for an AbortError
afterAbort(c) == SettleCall(c, [kind |-> "rejected", error |-> timeoutError(c)])

TimerDue(c) == c.armed /\ now >= c.start + c.timeout

\* a call starts: the timer is armed and fetch is awaited
\* (the calls followed here start at the first instant)
StartFetch ==
    /\ net.on
    /\ now = 0
    /\ Len(net.calls) < MaxFetches
    /\ \E client \in Clients, arg \in TimeoutArgs :
          net' = [net EXCEPT !.calls =
                     Append(@, [client  |-> client,
                                timeout |-> EffectiveTimeout(arg),
                                start   |-> now,
                                pc      |-> "fetch",
                                armed   |-> TRUE,
                                status  |-> 0,
                                body    |-> "none",
                                settled |-> 0,
                                result  |-> Pending])]
    /\ UNCHANGED <<now, reportVars, cacheVars, engine, job, pipe, calc>>

\* fetch resolves with the response (status line and headers);
\* clearTimeout(timeoutId) runs and response.json() is awaited
HeadersArrive ==
    /\ net.on
    /\ \E i \in DOMAIN net.calls, status \in Statuses :
          /\ net.calls[i].pc = "fetch"
          /\ net' = [net EXCEPT !.calls[i].pc = "body",
                                !.calls[i].armed = FALSE,
                                !.calls[i].status = status]
    /\ UNCHANGED <<now, reportVars, cacheVars, engine, job, pipe, calc>>

\* fetch rejects: no response; the catch block rethrows the error
NetworkFails ==
    /\ net.on
    /\ \E i \in DOMAIN net.calls :
          /\ net.calls[i].pc = "fetch"
          /\ net' = [net EXCEPT !.calls[i] =
                        SettleCall(@, [kind |-> "rejected", error |-> networkError])]
    /\ UNCHANGED <<now, reportVars, cacheVars, engine, job, pipe, calc>>

\* response.json() settles
BodyArrives ==
    /\ net.on
    /\ \E i \in DOMAIN net.calls, body \in ResponseBodies :
          /\ net.calls[i].pc = "body"
          /\ net' = [net EXCEPT !.calls[i] = afterBody(@, body)]
    /\ UNCHANGED <<now, reportVars, cacheVars, engine, job, pipe, calc>>

\* the abort timer fires: controller.abort(); a pending fetch rejects with an
\* AbortError
TimerFires ==
    /\ net.on
    /\ \E i \in DOMAIN net.calls :
          /\ TimerDue(net.calls[i])
          /\ net' = [net EXCEPT !.calls[i] =
                        IF @.pc = "fetch"
                        THEN [afterAbort(@) EXCEPT !.armed = FALSE]
                        ELSE [@ EXCEPT !.armed = FALSE]]
    /\ UNCHANGED <<now, reportVars, cacheVars, engine, job, pipe, calc>>

\* time passes; a timer that is due fires before time passes further
NetTime ==
    /\ net.on
    /\ now < MaxNetTicks * NetTick
    /\ \A i \in DOMAIN net.calls : ~TimerDue(net.calls[i])
    /\ now' = now + NetTick
    /\ UNCHANGED <<reportVars, cacheVars, mediaVars>>

InitTransport ==
    /\ now = 0
    /\ reportRateLimit = EmptyMap
    /\ obs = [c \in ClientIds |-> NoObs]
    /\ last = NoRequest
    /\ watch = NoWatch
    /\ cache = EmptyMap
    /\ inflight = << >>
    /\ host = [exists |-> {}, epoch |-> 0]
    /\ writes = [ops |-> 0, max |-> 0, pending |-> << >>, acked |-> EmptyMap]
    /\ misses = EmptyMap
    /\ seen = [op |-> "none"]
    /\ engine = [on |-> FALSE]
    /\ job = [pc |-> "idle"]
    /\ pipe = [on |-> FALSE]
    /\ net = [on |-> TRUE, calls |-> << >>]
    /\ calc = [on |-> FALSE]

NextTransport ==
    \/ StartFetch
    \/ HeadersArrive
    \/ NetworkFails
    \/ BodyArrives
    \/ TimerFires
    \/ NetTime

\* transport calls of both clients, with the clock running
SpecTransport == InitTransport /\ [][NextTransport]_vars

(***************************************************************************)
(* Transport: claims                                                       *)
(***************************************************************************)

\* C23: once more than its timeout has passed since a transport call started,
\* the call has settled, and it settled no later than at its timeout: a call
\* that resolved, or failed for another reason, did so within the timeout,
\* and a call whose complete response had not arrived by then failed with
\* the timeout error.
C23_SettledByTimeout ==
    net.on =>
        \A i \in DOMAIN net.calls :
            LET c == net.calls[i]
            IN  /\ now > c.start + c.timeout => c.pc = "done"
                /\ c.pc = "done" =>
                      /\ c.settled <= c.start + c.timeout
                      /\ c.result = [kind |-> "rejected", error |-> timeoutError(c)]
                            => c.settled = c.start + c.timeout

\* the error of a failed call carries the status code, as a property or in
\* its message
CarriesStatus(err, status) ==
    \/ err.status = status
    \/ err.text = "HTTP" /\ err.n = status

\* C24: a transport call whose response had a non-2xx status has failed with
\* an error that carries the status code and, when the body had one, the
\* server's message; for both clients and for any body.
C24_UpstreamError ==
    net.on =>
        \A i \in DOMAIN net.calls :
            LET c == net.calls[i]
            IN  (c.pc = "done" /\ c.status # 0 /\ ~Ok(c.status)) =>
                    /\ c.result.kind = "rejected"
                    /\ CarriesStatus(c.result.error, c.status)
                    /\ c.body = "message" => c.result.error.text = ServerMessage

(***************************************************************************)
(* handleFileSelect: failure                                               *)
(***************************************************************************)

\* handleFileSelect of upload-netlify.js
SelectFile == HandleFileSelectOf("half")

NextUpload ==
    \/ ScriptArrives
    \/ SelectFile
    \/ LoadSimple
    \/ ReadSimple
    \/ RunSimple
    \/ ReadSettles
    \/ RunSettles
    \/ AfterCompress
    \/ CreateSettles
    \/ ReaderSettles
    \/ AttachSettles
    \/ AfterUpload

\* the orchestrator of upload-netlify.js
SpecUpload == InitPipeline /\ [][NextUpload]_vars

\* C25: when compression or delivery has failed, the run stopped at that
\* step (no delivery was started after a failed compression), showError was
\* called exactly once, nothing was added to the upload history and
\* isProcessing is false; nothing more happens in that run, and the next
\* thing the orchestrator does is a new run that starts with a new compress
\* call on the selected file.
C25_FailureHalts ==
    /\ [](pipe.orch.pc = "failed" =>
            LET o == pipe.orch
            IN  /\ o.shown = 1
                /\ ~o.isProcessing
                /\ Len(pipe.stored) = o.stored0
                /\ IF job.result.kind = "rejected"
                   THEN o.upload = 0 /\ Len(pipe.uploads) = o.uploads0
                   ELSE /\ o.upload = o.uploads0 + 1
                        /\ Len(pipe.uploads) = o.uploads0 + 1
                        /\ pipe.uploads[o.upload].result.kind = "rejected")
    /\ [][pipe.orch.pc = "failed" =>
            IF pipe'.orch = pipe.orch
            THEN pipe' = pipe /\ job' = job
            ELSE \/ pipe'.orch.pc = "refused"
                 \/ /\ pipe'.orch.pc = "compress"
                    /\ pipe'.orch.upload = 0
                    /\ job'.n = job.n + 1
                    /\ job'.file = pipe'.orch.file
                    /\ Len(pipe'.uploads) = Len(pipe.uploads)]_vars

\* delivery failed, the same file was selected again, and the new run has
\* compressed it again and begun a new delivery
C25_Witness ==
    /\ pipe.on
    /\ pipe.orch.pc = "upload"
    /\ pipe.orch.prev = "failed"
    /\ pipe.orch.same
    /\ pipe.orch.upload = 2
    /\ pipe.uploads[1].result.kind = "rejected"
    /\ pipe.stored = << >>

(***************************************************************************)
(* compress.js: VideoCompressionEngine.calculateCompressionParams.         *)
(* Sizes are counted in units of 100 bytes and durations in milliseconds,  *)
(* so that originalSize * 0.8 and the division by the duration stay within *)
(* the integers.                                                           *)
(***************************************************************************)

maxWidth == 1280

maxHeight == 720

configFps == 30

\* 100 * 1024 * 1024 bytes, in units of 100 bytes
maxOutputSize == 1048576

\* videoInfo.duration || 100, in milliseconds
DefaultDuration == 100000

bitrateFloor == 500

\* small widths and heights are taken from 1..MaxSmallDim
MaxSmallDim == 6

Widths == 1..MaxSmallDim \cup {1279, 1280, 1281, 1920}

Heights == 1..MaxSmallDim \cup {719, 720, 721, 1080}

\* milliseconds; 0 also stands for a descriptor without duration
Durations == {0, 1, 12500, 600000}

\* 0 stands for a descriptor without fps
FrameRates == {0, 24, 30, 60}

\* 0 bytes, 100 bytes, 50 MB, 200 MB (in units of 100 bytes)
OriginalSizes == {0, 1, 524288, 2097152}

MinOf(a, b) == IF a <= b THEN a ELSE b

MaxOf(a, b) == IF a >= b THEN a ELSE b

\* (variant: Math.floor(n / 2) * 2)
roundToEvenDown(n) == (n \div 2) * 2

\* Math.round(n / 2) * 2, for n >= 0: a half is rounded up
roundToEven(n) == ((n + 1) \div 2) * 2

\* Math.floor((targetSize * 8) / durationSeconds / 1000) with
\* targetSize = Math.min(maxOutputSize, originalSize * 0.8):
\* 8 * targetSize bytes = min(800 * maxOutputSize, 640 * originalSize) here,
\* and dividing by seconds and by 1000 is dividing by milliseconds
rawBitrate(originalSize, duration) ==
    MinOf(800 * maxOutputSize, 640 * originalSize)
        \div (IF duration = 0 THEN DefaultDuration ELSE duration)

calculateCompressionParams(videoInfo, originalSize) ==
    [width   |-> roundToEven(MinOf(videoInfo.width, maxWidth)),
     height  |-> roundToEven(MinOf(videoInfo.height, maxHeight)),
     fps     |-> MinOf(IF videoInfo.fps = 0 THEN configFps ELSE videoInfo.fps,
                       configFps),
     bitrate |-> <<MaxOf(rawBitrate(originalSize, videoInfo.duration),
                         bitrateFloor), "k">>,
     preset  |-> "fast"]

VideoInfos ==
    [width : Widths, height : Heights, duration : Durations, fps : FrameRates]

NoParams == [preset |-> "none"]

InitParams ==
    /\ now = 0
    /\ reportRateLimit = EmptyMap
    /\ obs = [c \in ClientIds |-> NoObs]
    /\ last = NoRequest
    /\ watch = NoWatch
    /\ cache = EmptyMap
    /\ inflight = << >>
    /\ host = [exists |-> {}, epoch |-> 0]
    /\ writes = [ops |-> 0, max |-> 0, pending |-> << >>, acked |-> EmptyMap]
    /\ misses = EmptyMap
    /\ seen = [op |-> "none"]
    /\ engine = [on |-> FALSE]
    /\ job = [pc |-> "idle"]
    /\ pipe = [on |-> FALSE]
    /\ net = [on |-> FALSE]
    /\ calc \in [on : {TRUE}, videoInfo : VideoInfos,
                 originalSize : OriginalSizes, params : {NoParams}]

Calculate ==
    /\ calc.on
    /\ calc.params = NoParams
    /\ calc' = [calc EXCEPT !.params =
                   calculateCompressionParams(calc.videoInfo, calc.originalSize)]
    /\ UNCHANGED <<now, reportVars, cacheVars, engine, job, pipe, net>>

NextParams == Calculate

SpecParams == InitParams /\ [][NextParams]_vars

IsEven(n) == n % 2 = 0

\* C26: for every descriptor with width >= 1 and height >= 1, every duration
\* >= 0 and every original size >= 0, the width and height returned are
\* positive even numbers of at most 1280 and 720, the fps is at most 30, the
\* bitrate is a number of at least 500 followed by k, and a 1920x1080 source
\* yields 1280x720.
C26_ParamsInRange ==
    (calc.on /\ calc.params # NoParams) =>
        LET v == calc.videoInfo
            r == calc.params
        IN  (v.width >= 1 /\ v.height >= 1 /\ v.duration >= 0
                /\ calc.originalSize >= 0) =>
                /\ r.width > 0 /\ IsEven(r.width) /\ r.width <= maxWidth
                /\ r.height > 0 /\ IsEven(r.height) /\ r.height <= maxHeight
                /\ r.fps <= configFps
                /\ r.bitrate[1] >= bitrateFloor /\ r.bitrate[2] = "k"
                /\ (v.width = 1920 /\ v.height = 1080) =>
                      (r.width = 1280 /\ r.height = 720)

\* a 1920x1080 source of 200 MB and 12.5 s has been given its parameters,
\* with a bitrate above the floor
C26_Witness ==
    /\ calc.on /\ calc.params # NoParams
    /\ calc.videoInfo.width = 1920 /\ calc.videoInfo.height = 1080
    /\ calc.videoInfo.duration = 12500
    /\ calc.originalSize = 2097152
    /\ calc.params.width = 1280 /\ calc.params.height = 720
    /\ calc.params.bitrate[1] > bitrateFloor

(***************************************************************************)
(* The engine with initFFmpeg: progress of initialization and of the waits *)
(***************************************************************************)

\* from here on the FFmpeg script is present with its class and load()
\* succeeds; this happens while the bound on attempts leaves a retry
Recover ==
    /\ engine.pc # "new"
    /\ ~engine.stable
    /\ engine.attempts < MaxAttempts
    /\ engine' = [Begin(engine) EXCEPT !.stable = TRUE, !.script = "ok"]
    /\ UNCHANGED <<now, reportVars, cacheVars, job, pipe, net, calc>>

NextEngineLive ==
    \/ Construct
    \/ ScriptLoads
    \/ ScriptPoll
    \/ LoadSettles
    \/ RetryFires
    \/ StartCompress
    \/ ReadyPoll
    \/ ReadSettles
    \/ RunSettles
    \/ Recover

\* timers that are due fire, and the promise of load() settles
SpecEngineLive ==
    /\ InitEngine
    /\ [][NextEngineLive]_vars
    /\ WF_vars(ScriptPoll)
    /\ WF_vars(RetryFires)
    /\ WF_vars(ReadyPoll)
    /\ WF_vars(LoadSettles)

\* C28: once the script is present and load() succeeds from then on, the
\* engine reaches Ready, however many attempts failed before; and a compress
\* call waiting in waitUntilReady while the engine is Ready proceeds to its
\* first checkpoint.
C28_EventuallyReady ==
    /\ engine.stable ~> engine.isReady
    /\ (engine.stable /\ engine.isReady /\ job.pc = "waitReady")
          ~> (job.pc = "read" /\ job.progress = <<5>>)
    /\ [][(job.pc = "waitReady" /\ engine.isReady /\ job' # job) =>
             job'.pc = "read"]_vars

\* two attempts failed, the third one succeeded after the recovery, and the
\* compress call that had been waiting since the construction has proceeded
C28_Witness ==
    /\ engine.on /\ engine.stable /\ engine.isReady
    /\ engine.attempts = 3
    /\ job.pc = "read" /\ ~job.ready0 /\ job.start = 0 /\ now > RetryDelay

\* C29: a compress call leaves waitUntilReady: with the engine Ready, or
\* rejected with the timeout error when at least maxWait has passed since it
\* began to wait, and no later than one poll after that; initFFmpeg leaves
\* waitForFFmpegScript likewise: with the script present, or failed when at
\* least its maxWait has passed.
C29_WaitsTerminate ==
    /\ (job.pc = "waitReady") ~> (job.pc # "waitReady")
    /\ (engine.pc = "waitScript") ~> (engine.pc # "waitScript")
    /\ [](job.pc = "waitReady" => now - job.start <= ReadyMaxWait + ReadyPollDelay)
    /\ [](engine.pc = "waitScript" =>
             now - engine.start <= ScriptMaxWait + ScriptPollDelay)
    /\ [][(job.pc = "waitReady" /\ job'.pc # "waitReady") =>
             \/ job'.pc = "read" /\ engine.isReady
             \/ /\ job'.pc = "done"
                /\ ~engine.isReady
                /\ job'.result = [kind |-> "rejected",
                                  error |-> <<"Compression failed: ",
                                              "FFmpeg initialization timeout">>]
                /\ now' - job.start >= ReadyMaxWait]_vars
    /\ [][(engine.pc = "waitScript" /\ engine'.pc # "waitScript") =>
             \/ engine.script # "absent"
             \/ /\ StateOf(engine') = "Failed"
                /\ now' - engine.start >= ScriptMaxWait]_vars

\* the script never appeared: a wait for it has timed out, and the compress
\* call that waited for the engine has been rejected with the timeout error
C29_Witness ==
    /\ engine.on /\ engine.script = "absent" /\ engine.attempts >= 2
    /\ job.pc = "done"
    /\ job.result = [kind |-> "rejected",
                     error |-> <<"Compression failed: ",
                                 "FFmpeg initialization timeout">>]

(***************************************************************************)
(* report-submit.js: the window of the rate limiter is fixed               *)
(***************************************************************************)

\* C30: a call of checkReportRateLimit at an instant not after the stored
\* resetTime leaves resetTime as it was and adds one to the count (also at
\* now = resetTime exactly); a call after it stores resetTime = now + 1 hour
\* and count 1; and resetTime never changes in any other way.
C30_FixedWindow ==
    /\ [](\A c \in ClientIds :
            (obs[c].n > 0 /\ obs[c].preHas) =>
                LET record == reportRateLimit[c]
                IN  IF obs[c].time <= obs[c].preReset
                    THEN /\ record.resetTime = obs[c].preReset
                         /\ record.count = obs[c].preCount + 1
                    ELSE /\ record.resetTime = obs[c].time + Window
                         /\ record.count = 1)
    /\ [][\A c \in ClientIds :
            (/\ MapHas(reportRateLimit, c)
             /\ reportRateLimit'[c].resetTime # reportRateLimit[c].resetTime) =>
                /\ now > reportRateLimit[c].resetTime
                /\ reportRateLimit'[c].resetTime = now + Window
                /\ reportRateLimit'[c].count = 1]_vars

\* a call was made at the reset instant itself and was counted in the old
\* window, on top of the calls made before it
C30_Witness ==
    \E c \in ClientIds :
        /\ obs[c].n > 1 /\ obs[c].preHas
        /\ obs[c].time = obs[c].preReset
        /\ obs[c].preCount >= 1
        /\ reportRateLimit[c].count = obs[c].preCount + 1
        /\ reportRateLimit[c].resetTime = obs[c].time

(***************************************************************************)
(* handleFileSelect: compression and delivery of one upload                *)
(***************************************************************************)

\* C31: while a run of handleFileSelect is compressing, it has started no
\* delivery; once it has started its delivery, compress had settled with a
\* result, and from the first delivery progress value on no further compress
\* progress value of that run is delivered.
C31_NoOverlap ==
    /\ [](pipe.orch.pc \in {"compress", "upload", "done", "failed"} =>
            LET o == pipe.orch
            IN  /\ o.pc = "compress" =>
                      (o.upload = 0 /\ Len(pipe.uploads) = o.uploads0)
                /\ o.upload # 0 =>
                      /\ job.pc = "done" /\ job.result.kind = "resolved"
                      /\ pipe.uploads[o.upload].progress # << >>
                      /\ \A k \in SentBy(o.upload, "create-release") :
                            \A i \in DOMAIN pipe.uploads :
                                AllSentBy(pipe, i) # {} /\ i > o.uploads0
                                    => i = o.upload)
    /\ [][(/\ pipe.orch.pc \in {"upload", "done", "failed"}
           /\ pipe.orch.upload # 0
           /\ pipe'.orch.pc \in {"upload", "done", "failed"}
           /\ pipe'.orch.upload = pipe.orch.upload) =>
              job' = job]_vars

\* a run is delivering: its create-release request is out, and the compress
\* call before it went through the encoder and delivered all its values
C31_Witness ==
    /\ pipe.on
    /\ pipe.orch.pc = "upload"
    /\ SentBy(pipe.orch.upload, "create-release") # {}
    /\ job.pc = "done" /\ job.result.kind = "resolved"
    /\ Len(job.progress) >= 5
    /\ job.progress[Len(job.progress)] = 100

(***************************************************************************)
(* report-submit.js: the handler, quota and outcomes                       *)
(***************************************************************************)

\* the last request was a POST that reached the handler
PostHandled ==
    last.op \in {"post", "submit"} /\ last.transport # "network_error"

\* C32: every POST request that reaches the handler has been counted once in
\* its client's window, before its body was parsed and whatever its answer
\* (429, a malformed body, missing fields, an invalid reason, a webhook
\* failure, success); requests with another method leave the map unchanged.
C32_QuotaAccounting ==
    /\ [](PostHandled =>
            /\ last.checked
            /\ MapHas(reportRateLimit, last.client)
            /\ reportRateLimit[last.client].count = last.preCount + 1
            /\ last.parsed => last.statusCode # 429
            /\ last.statusCode = 429 => last.preCount >= Ceiling)
    /\ [](last.op = "other" => ~last.checked /\ ~last.parsed)
    /\ [][last'.op = "other" => reportRateLimit' = reportRateLimit]_vars

\* a POST whose webhook delivery failed has taken the client's count from 3
\* to 4
C32_Witness ==
    /\ last.op = "post"
    /\ last.statusCode = 400 /\ last.webhookCalls = 1
    /\ last.preCount = 3
    /\ reportRateLimit[last.client].count = 4

\* C33: a request answered 429 was not parsed and caused no webhook request;
\* a request answered 200 with success true caused exactly one webhook
\* request, which was answered with a 2xx status; a request whose webhook
\* request failed is answered with another status and success false.
C33_Outcomes ==
    PostHandled =>
        /\ last.statusCode = 429 => (~last.parsed /\ last.webhookCalls = 0)
        /\ last.webhookCalls \in {0, 1}
        /\ (last.statusCode = 200 /\ last.body.success) =>
              /\ last.webhookCalls = 1
              /\ last.webhook.kind = "response"
              /\ last.webhook.statusCode \in 200..299
        /\ (last.webhookCalls = 1
              /\ ~(last.webhook.kind = "response"
                      /\ last.webhook.statusCode \in 200..299)) =>
              (last.statusCode # 200 /\ last.body.success = FALSE)

\* the Discord end answered 500 to the webhook request of a valid report,
\* and the report was answered 400 with success false
C33_Witness ==
    /\ last.op = "post"
    /\ last.webhookCalls = 1
    /\ last.webhook = [kind |-> "response", statusCode |-> 500]
    /\ last.statusCode = 400 /\ last.body.success = FALSE

(***************************************************************************)
(* withCache: a compute that rejects                                       *)
(***************************************************************************)

\* C34: when compute rejects, withCache stores nothing, and the next
\* withCache call with that key invokes compute again: a call that starts
\* when the latest compute for its key has rejected, and no compute for the
\* key was started since, is a miss.  (The rejecting call itself leaves the
\* map as it was: FailRead has no assignment to cache.)
C34_FailureStoresNothing ==
    (seen.op = "read" /\ seen.afterFailure) => seen.computed

(***************************************************************************)
(* withCache: the expiry of a stored entry                                 *)
(***************************************************************************)

\* C35: the expiry stored by withCache is the instant at which the computing
\* call started plus the TTL, whatever the instant at which compute finished,
\* and a value is returned from the cache only at an instant earlier than the
\* expiry of its entry: never at or after the start of its computing call
\* plus the TTL.
C35_FreshnessBound ==
    /\ seen.op = "stored" =>
          /\ MapHas(cache, seen.key)
          /\ cache[seen.key].expiresAt = seen.start + cacheTTL
          /\ cache[seen.key].value = seen.value
    /\ (seen.op = "read" /\ seen.hit) =>
          /\ seen.hadEntry
          /\ seen.value = seen.entry.value
          /\ seen.start < seen.entry.expiresAt
    /\ \A k \in DOMAIN cache : cache[k].expiresAt <= now + cacheTTL

\* a compute that took time has just been stored: its expiry counts from the
\* start of the call, which is earlier than the instant of the store
C35_Witness ==
    /\ seen.op = "stored"
    /\ seen.start < now
    /\ cache[seen.key].expiresAt < now + cacheTTL

(***************************************************************************)
(* deleteRelease against a getFileInfo in flight                           *)
(***************************************************************************)

\* C36: after deleteRelease(id) has returned true, no later getFileInfo(id)
\* returns a value that was fetched from the host before the deletion: the
\* value a call started afterwards takes from the cache was read from the host
\* no earlier than the deletion that was confirmed to the caller.
C36_NoValueFromBeforeDelete ==
    \A id \in ReadIds :
        (seen.op = "read" /\ seen.key = fileKey(id) /\ seen.hit) =>
            seen.value.epoch >= seen.acked

(***************************************************************************)
(* initFFmpeg: one chain of attempts                                       *)
(***************************************************************************)

\* the attempts of initFFmpeg that are between their entry and their end:
\* one per pending turn of waitForFFmpegScript, one for a pending load
AttemptsInFlight(e) ==
    Cardinality({f \in e.timers : f.kind = "scriptPoll"})
        + (IF e.pc = "load" THEN 1 ELSE 0)

\* C37: with initFFmpeg invoked by the constructor and by its retry timer
\* only, at every instant at most one attempt is in flight and at most one
\* retry timer is pending, never both at once (isInitializing is true exactly
\* while the attempt is in flight); once the engine is Ready no attempt is in
\* flight, no retry timer is pending, no further attempt is started and
\* isReady stays true.
C37_SingleChain ==
    /\ [](engine.pc # "new" =>
            /\ AttemptsInFlight(engine) <= 1
            /\ Cardinality(RetryTimers(engine)) <= 1
            /\ ~(AttemptsInFlight(engine) = 1 /\ RetryTimers(engine) # {})
            /\ engine.isInitializing <=> AttemptsInFlight(engine) = 1
            /\ engine.isReady =>
                  /\ AttemptsInFlight(engine) = 0
                  /\ RetryTimers(engine) = {})
    /\ [][engine.isReady =>
            /\ engine'.isReady
            /\ engine'.attempts = engine.attempts
            /\ ~engine'.isInitializing]_vars

\* after two failed attempts the third one made the engine Ready, and a
\* compress call has been made on it since
C37_Witness ==
    /\ engine.isReady
    /\ engine.attempts = 3
    /\ RetryTimers(engine) = {}
    /\ job.n >= 1

(***************************************************************************)
(* The flags of the engine and the backend instance                        *)
(***************************************************************************)

\* C38: isReady and isInitializing are never both true, and whenever isReady
\* is true the field ffmpeg holds the backend instance whose load() completed
\* successfully: it is not null, and its load is neither pending nor failed.
C38_FlagConsistency ==
    /\ ~(engine.isReady /\ engine.isInitializing)
    /\ engine.isReady =>
          /\ engine.ffmpeg = "instance"
          /\ engine.loading = "ok"
    /\ engine.loading = "pending" <=> engine.pc = "load"
    /\ engine.ffmpeg = "null" <=> engine.loading = "none"

\* the engine became Ready at its second attempt, with the instance that
\* attempt created and loaded
C38_Witness ==
    /\ engine.isReady
    /\ engine.attempts = 2
    /\ engine.script = "ok"
    /\ engine.loading = "ok"
    /\ engine.trail = <<"Initializing", "Ready">>

(***************************************************************************)
(* appState.isProcessing and the beforeunload warning                      *)
(***************************************************************************)

\* the beforeunload listener: if (appState.isProcessing) the warning is raised
beforeunloadWarns(o) == o.isProcessing

\* a handleFileSelect pipeline is in flight: between showProcessing and its
\* last statement or its catch block
InFlightRun(o) == o.pc \in {"compress", "upload"}

\* C39: appState.isProcessing is true exactly while a handleFileSelect
\* pipeline is in flight: set when the pipeline starts, false again once it
\* has finished with success or with failure, so that the beforeunload
\* warning is raised only while an upload is running.
C39_ProcessingFlag ==
    /\ pipe.orch.isProcessing <=> InFlightRun(pipe.orch)
    /\ beforeunloadWarns(pipe.orch) => InFlightRun(pipe.orch)

====
